---------------------------- MODULE Spec2Model ----------------------------
(***************************************************************************)
(* Model of the hag-toolkit valuation and recommendation engine.           *)
(*                                                                         *)
(*   - pricing helpers of js/auction-data.js (src/unnamed/part_003, the    *)
(*     current version that starts at line 260 of that file)               *)
(*   - percentile strategy components of js/auction-page.js                *)
(*     (src/unnamed/part_002)                                              *)
(*   - the scorer of js/recommended-targets.js                             *)
(*   - the persisted state of js/storage.js that the scorer reads          *)
(*                                                                         *)
(* Numbers.  Dollar anchors and plans are integers.  Category weights are  *)
(* integers in tenths (the strategy page's slider has step 0.1).  Stat     *)
(* values are integers in units of 1/10000 (the precision toFixed(4)       *)
(* keeps).  Quotients are exact rationals [n, d]; floating-point rounding  *)
(* of the JavaScript doubles is not modelled.                              *)
(***************************************************************************)
EXTENDS Integers, Sequences, FiniteSets, TLC

VARIABLES
    player,       \* the CSV row a target is priced against
    target,       \* the auction target being priced (plan, max)
    weights,      \* category weights, tenths, as getCategoryWeights returns them
    opts,         \* opts of computeTargetPricing: hasCatStats, caps, valueMode
    pricing,      \* the last result of computeTargetPricing
    baselineOut,  \* the last result of getBaselineVal
    pool,         \* AUCTION_PLAYERS: the merged rows of the player pool
    built,        \* whether buildStrategyComponents has run on the pool
    roster,       \* localStorage hag_roster_v1
    targets,      \* localStorage hag_auction_targets
    livePrices,   \* localStorage live prices, by player key
    planner,      \* localStorage hag_lineup_planner_v1: slots
    recFilters,   \* the affordability controls of the panel
    rec,          \* the last result of scorePlayers
    masterCsv,    \* the data rows of data/master.csv, as parseCSV returns them
    auctionOnlyRaw,        \* what loadAuctionPlayers returned
    projOnlyRaw,           \* what loadPlayers of projections-data.js returned
    AUCTION_BY_NAME,       \* the strict name index of the pool
    AUCTION_BY_NAME_LOOSE, \* the loose name index of the pool
    HAS_CAT_STATS,         \* whether a pool row carries category columns
    lookup,       \* the last call of lookupPlayerByName and its result
    named,        \* a display name and its normalizeName results
    keyed,        \* two records and their getPlayerKey results
    need,         \* the last needBoostForPlayer / eligibility results
    added,        \* the keys of the candidates quick-added to the roster
    minors,       \* localStorage hag_lineup_planner_v1: minors
    settings,     \* localStorage hag_settings
    pins,         \* localStorage hag_compare_keys_v1
    lastOp        \* the last roster page or compare panel operation

pricingVars == <<player, target, opts, pricing, baselineOut>>
poolVars == <<pool, built>>
scorerVars == <<roster, targets, livePrices, planner, recFilters, rec>>

resolverVars == <<masterCsv, auctionOnlyRaw, projOnlyRaw, AUCTION_BY_NAME,
                  AUCTION_BY_NAME_LOOSE, HAS_CAT_STATS, lookup>>
identityVars == <<named, keyed>>
slotVars == <<need>>
pageVars == <<added, minors, settings, pins, lastOp>>

vars == <<player, target, weights, opts, pricing, baselineOut, pool, built,
          roster, targets, livePrices, planner, recFilters, rec,
          masterCsv, auctionOnlyRaw, projOnlyRaw, AUCTION_BY_NAME,
          AUCTION_BY_NAME_LOOSE, HAS_CAT_STATS, lookup, named, keyed, need,
          added, minors, settings, pins, lastOp>>

-----------------------------------------------------------------------------
(* JavaScript values                                                       *)

\* A cell of a row or of a stored object: undefined, null, "", a
\* non-numeric string, or a number (a numeric string converts to the same
\* number under Number()).
Undef == [t |-> "undef", n |-> 0]
Null  == [t |-> "null",  n |-> 0]
Empty == [t |-> "empty", n |-> 0]
Str   == [t |-> "str",   n |-> 0]
Num(k) == [t |-> "num", n |-> k]

\* A number or null, as an option.
None == [some |-> FALSE, v |-> 0]
Some(x) == [some |-> TRUE, v |-> x]

Max(a, b) == IF a >= b THEN a ELSE b
Min(a, b) == IF a <= b THEN a ELSE b
Abs(x) == IF x < 0 THEN -x ELSE x

RECURSIVE GCD(_, _)
GCD(a, b) == IF b = 0 THEN a ELSE GCD(b, a % b)

\* Exact rationals in lowest terms, denominator positive.
Rat(n, d) == LET g == GCD(Abs(n), d) IN [n |-> n \div g, d |-> d \div g]
R(k) == [n |-> k, d |-> 1]
RAdd(a, b) == Rat(a.n * b.d + b.n * a.d, a.d * b.d)
RNeg(a) == [n |-> -a.n, d |-> a.d]
RSub(a, b) == RAdd(a, RNeg(b))
RLe(a, b) == a.n * b.d <= b.n * a.d
RLt(a, b) == a.n * b.d < b.n * a.d
RMax(a, b) == IF RLe(b, a) THEN a ELSE b
RMin(a, b) == IF RLe(a, b) THEN a ELSE b

-----------------------------------------------------------------------------
(* Pricing helpers: js/auction-data.js                                     *)

\* num(v, fallback): blanks, missing and non-numeric cells fall back.
num(v, fallback) ==
    IF v.t \in {"undef", "null", "empty"} THEN fallback
    ELSE IF v.t = "num" THEN Some(v.n)
    ELSE fallback

\* A variant of clamp that forgets the upper bound.
clampNoUpper(n, lo, hi) == RMax(lo, n)

\* A variant of clamp with the two bounds exchanged.
clampSwapped(n, lo, hi) == RMin(lo, RMax(hi, n))

\* clamp(n, lo, hi) = Math.max(lo, Math.min(hi, n))
clamp(n, lo, hi) == RMax(lo, RMin(hi, n))

\* String(t ?? "").trim().toLowerCase() on the type spellings of the model.
TrimLower(s) ==
    CASE s = "Pitcher " -> "pitcher"
      [] s = "PIT" -> "pit"
      [] s = "Hitter" -> "hitter"
      [] OTHER -> s

normType(t) ==
    LET s == TrimLower(t) IN IF s = "pit" \/ s = "pitcher" THEN "pit" ELSE "hit"

ALL_CATS == <<"OPS", "TB", "HR", "RBI", "R", "AVG", "SB",
              "IP", "QS", "K", "HLD", "SV", "ERA", "WHIP">>
HIT_CATS == <<"OPS", "TB", "HR", "RBI", "R", "AVG", "SB">>
PIT_CATS == <<"IP", "QS", "K", "HLD", "SV", "ERA", "WHIP">>

Range(s) == {s[i] : i \in DOMAIN s}
CatSet == Range(ALL_CATS)

\* A cell that getCatStat accepts: v != null && v !== "" && finite Number(v).
IsNumeric(c) == c.t = "num"

\* getCatStat(player, cat): the strategy component column cat__w first,
\* then the category's own column.  The lower-case and _26 aliases of the
\* candidate list are columns that the rows of the model do not carry.
getCatStat(p, cat) ==
    IF p.nil THEN None
    ELSE IF IsNumeric(p.comp[cat]) THEN Some(p.comp[cat].n)
    ELSE IF IsNumeric(p.stat[cat]) THEN Some(p.stat[cat].n)
    ELSE None

\* player?.field of a row that may be null
Field(p, f) == IF p.nil THEN Undef ELSE p[f]

getVal26(p) ==
    LET v == num(Field(p, "auction_value_26"), None)
    IN  IF ~v.some THEN None ELSE Some(Max(0, v.v))

getMarketEstimate(p) ==
    LET v == num(Field(p, "market_estimate"), None)
    IN  IF ~v.some THEN None ELSE Some(Max(0, v.v))

getShadow25(p) ==
    LET imp == num(Field(p, "auction_price_25_imputed"), None)
        a25 == num(Field(p, "auction_price_25"), None)
    IN  IF imp.some THEN Some(Max(0, imp.v))
        ELSE IF ~a25.some THEN None ELSE Some(Max(0, a25.v))

getBaseVal26(p) ==
    LET v == getVal26(p)
        sh == getShadow25(p)
    IN  IF v.some THEN v.v ELSE IF sh.some THEN sh.v ELSE 0

\* String(valueMode || "proj").toLowerCase()
ModeVals == {"proj", "market", "MARKET", ""}

ModeLower(m) ==
    CASE m = "" -> "proj"
      [] m = "MARKET" -> "market"
      [] OTHER -> m

\* A variant of getBaselineVal that takes any market estimate, also zero.
getBaselineValAnyMarket(p, valueMode) ==
    LET mode == ModeLower(valueMode)
        m == getMarketEstimate(p)
    IN  IF mode = "market"
        THEN IF m.some THEN m.v ELSE getBaseVal26(p)
        ELSE getBaseVal26(p)

getBaselineVal(p, valueMode) ==
    LET mode == ModeLower(valueMode)
        m == getMarketEstimate(p)
    IN  IF mode = "market"
        THEN IF m.some /\ m.v > 0 THEN m.v ELSE getBaseVal26(p)
        ELSE getBaseVal26(p)

\* A variant of the loop that skips the categories of weight zero.
RECURSIVE WeightedLoopSkipZero(_, _, _, _, _)
WeightedLoopSkipZero(p, w, cats, i, acc) ==
    IF i > Len(cats) THEN acc
    ELSE LET v == getCatStat(p, cats[i])
         IN  IF ~v.some \/ w[cats[i]] = 0
             THEN WeightedLoopSkipZero(p, w, cats, i + 1, acc)
             ELSE WeightedLoopSkipZero(p, w, cats, i + 1,
                     [any |-> TRUE,
                      baseScore |-> acc.baseScore + v.v,
                      weightedScore |-> acc.weightedScore + v.v * w[cats[i]]])

\* The loop of getWeightedVal26 over cats[i..]: any, baseScore, weightedScore.
\* w[cat] is in tenths, so weightedScore is in tenths of the stat unit.
RECURSIVE WeightedLoop(_, _, _, _, _)
WeightedLoop(p, w, cats, i, acc) ==
    IF i > Len(cats) THEN acc
    ELSE LET v == getCatStat(p, cats[i])
         IN  IF ~v.some THEN WeightedLoop(p, w, cats, i + 1, acc)
             ELSE WeightedLoop(p, w, cats, i + 1,
                     [any |-> TRUE,
                      baseScore |-> acc.baseScore + v.v,
                      weightedScore |-> acc.weightedScore + v.v * w[cats[i]]])

LoopStart == [any |-> FALSE, baseScore |-> 0, weightedScore |-> 0]

CatsOf(p) == IF normType(p.type) = "pit" THEN PIT_CATS ELSE HIT_CATS

\* getWeightedVal26(player, weights, hasCatStats, baseValOverride)
getWeightedVal26(p, w, hasCatStats, baseValOverride) ==
    LET baseVal == IF baseValOverride.some THEN baseValOverride.v
                   ELSE getBaseVal26(p)
    IN  IF p.nil \/ ~hasCatStats THEN R(baseVal)
        ELSE LET acc == WeightedLoop(p, w, CatsOf(p), 1, LoopStart)
             IN  IF ~acc.any \/ acc.baseScore = 0 THEN R(baseVal)
                 ELSE LET q == IF acc.baseScore > 0
                               THEN Rat(baseVal * acc.weightedScore,
                                        10 * acc.baseScore)
                               ELSE Rat(-(baseVal * acc.weightedScore),
                                        -(10 * acc.baseScore))
                      IN  RMax(R(0), q)

\* A variant of the final recommendation that is bounded by the hard max,
\* as the previous version of computeTargetPricing did.
AdjRawCapped(t, baseVal, totalDelta) ==
    LET hardMax == num(t.max, Some(999)).v
    IN  RMin(RAdd(baseVal, totalDelta), R(hardMax))

\* const adjRaw = baseVal + totalDelta  (uncapped by Hard Max)
AdjRaw(t, baseVal, totalDelta) == RAdd(baseVal, totalDelta)

DefaultStrategyCap == 6
DefaultDeltaCap == 15

NoPricing ==
    [done |-> FALSE, baseVal |-> R(0), weightedVal |-> R(0), plan |-> R(0),
     marketDelta |-> R(0), strategyDelta |-> R(0), totalDelta |-> R(0),
     adjRaw |-> R(0)]

\* computeTargetPricing(target, player, weights, opts)
computeTargetPricing(t, p, w, o) ==
    LET strategyCap == R(num(o.caps.strategyCap, Some(DefaultStrategyCap)).v)
        deltaCap == R(num(o.caps.deltaCap, Some(DefaultDeltaCap)).v)
        baseValCsv == getBaselineVal(p, o.valueMode)
        weightedVal == getWeightedVal26(p, w, o.hasCatStats, Some(baseValCsv))
        plan == num(t.plan, Some(0)).v
        baseVal == IF baseValCsv > 0 THEN baseValCsv ELSE plan
        marketDelta == R(baseVal - plan)
        strategyDeltaRaw == RSub(weightedVal, R(baseVal))
        strategyDelta == clamp(strategyDeltaRaw, RNeg(strategyCap), strategyCap)
        totalDelta == clamp(RAdd(marketDelta, strategyDelta),
                            RNeg(deltaCap), deltaCap)
        adjRaw == AdjRaw(t, R(baseVal), totalDelta)
    IN  [done |-> TRUE, baseVal |-> R(baseVal), weightedVal |-> weightedVal,
         plan |-> R(plan), marketDelta |-> marketDelta,
         strategyDelta |-> strategyDelta, totalDelta |-> totalDelta,
         adjRaw |-> adjRaw]

-----------------------------------------------------------------------------
(* Names and stable player keys: js/player-key.js                          *)

\* A string is a sequence of characters.  "e_acute" and "E_acute" are the
\* precomposed letters U+00E9 and U+00C9, "acute" is the combining mark
\* U+0301, "\t" is a tab.
WhiteSpace == {" ", "\t"}
CombiningMarks == {"acute"}

\* String.prototype.normalize("NFD") of one character.
Decompose(c) ==
    CASE c = "e_acute" -> <<"e", "acute">>
      [] c = "E_acute" -> <<"E", "acute">>
      [] OTHER -> <<c>>

\* String.prototype.toLowerCase of one character.
LowerChar(c) ==
    CASE c = "A" -> "a" [] c = "B" -> "b" [] c = "E" -> "e"
      [] c = "J" -> "j" [] c = "L" -> "l" [] c = "O" -> "o"
      [] c = "S" -> "s" [] c = "E_acute" -> "e_acute"
      [] OTHER -> c

RECURSIVE NFD(_)
NFD(str) ==
    IF str = <<>> THEN <<>> ELSE Decompose(Head(str)) \o NFD(Tail(str))

\* str.replace(/\s+/g, " ")
RECURSIVE CollapseSpaces(_)
CollapseSpaces(str) ==
    IF str = <<>> THEN <<>>
    ELSE IF Head(str) \in WhiteSpace
         THEN IF Len(str) > 1 /\ str[2] \in WhiteSpace
              THEN CollapseSpaces(Tail(str))
              ELSE <<" ">> \o CollapseSpaces(Tail(str))
         ELSE <<Head(str)>> \o CollapseSpaces(Tail(str))

RECURSIVE TrimLeft(_)
TrimLeft(str) ==
    IF str # <<>> /\ Head(str) \in WhiteSpace THEN TrimLeft(Tail(str)) ELSE str

RECURSIVE TrimRight(_)
TrimRight(str) ==
    IF str # <<>> /\ str[Len(str)] \in WhiteSpace
    THEN TrimRight(SubSeq(str, 1, Len(str) - 1))
    ELSE str

\* String.prototype.trim
Trim(str) == TrimRight(TrimLeft(str))

ToLowerCase(str) == [i \in DOMAIN str |-> LowerChar(str[i])]

\* A variant of normalizeName that trims first, before the accents and
\* periods are removed.
normalizeNameTrimFirst(str) ==
    ToLowerCase(CollapseSpaces(
        SelectSeq(SelectSeq(NFD(Trim(str)), LAMBDA c : c \notin CombiningMarks),
                  LAMBDA c : c # ".")))

normalizeName(str) ==
    Trim(ToLowerCase(CollapseSpaces(
        SelectSeq(SelectSeq(NFD(str), LAMBDA c : c \notin CombiningMarks),
                  LAMBDA c : c # "."))))

\* A key is the string kind + "|" + body; NoKey is the empty string.
Key(kind, body) == [kind |-> kind, body |-> body]
NoKey == Key("", <<>>)

\* trim() of a key string: kind has no white space, so only the end of a
\* non-empty body can change.
TrimKey(k) == IF k = NoKey THEN NoKey ELSE Key(k.kind, TrimRight(k.body))

\* The characters of the template literal `${type}|${normalizeName(name)}`.
KindChars(kind) ==
    CASE kind = "hit" -> <<"h", "i", "t">>
      [] kind = "pit" -> <<"p", "i", "t">>
      [] kind = "unk" -> <<"u", "n", "k">>
      [] kind = "id" -> <<"i", "d">>
      [] OTHER -> <<>>

KeyString(k) ==
    IF k = NoKey THEN <<>> ELSE KindChars(k.kind) \o <<"|">> \o k.body

\* A variant of getPlayerKey that files every unrecognised type under hit.
getPlayerKeyDefaultHit(id, type, name) ==
    IF Trim(id) # <<>> THEN Key("id", Trim(id))
    ELSE LET typeRaw == TrimLower(type)
             kind == IF typeRaw \in {"pit", "pitch", "pitcher"} THEN "pit"
                     ELSE "hit"
         IN  Key(kind, normalizeName(Trim(name)))

\* getPlayerKey(input) for an object input: id is the first explicit id
\* field that is not null (<<>> when there is none), type is
\* input.type ?? input.Type.
getPlayerKey(id, type, name) ==
    IF Trim(id) # <<>> THEN Key("id", Trim(id))
    ELSE LET typeRaw == TrimLower(type)
             kind == IF typeRaw \in {"pit", "pitch", "pitcher"} THEN "pit"
                     ELSE IF typeRaw \in {"hit", "hitter"} THEN "hit"
                     ELSE "unk"
         IN  Key(kind, normalizeName(Trim(name)))

-----------------------------------------------------------------------------
(* Percentile strategy components: js/auction-page.js                      *)

\* norm(t) === "pit" ? "pit" : "hit"
typeLabel(t) == IF TrimLower(t) = "pit" THEN "pit" ELSE "hit"

\* Number(v) where finite: a number is itself, "" and null are 0, undefined
\* and a non-numeric string are NaN.
NumberOf(c) ==
    IF c.t = "num" THEN Some(c.n)
    ELSE IF c.t \in {"empty", "null"} THEN Some(0)
    ELSE None

\* Number(p?.[cat]) as computePercentiles reads a cell.
PercentileValue(c) == NumberOf(c)

STRAT_CATS_HIT == <<"OPS", "TB", "HR", "RBI", "R", "AVG", "SB">>
STRAT_CATS_PIT == <<"IP", "QS", "K", "HLD", "SV", "ERA", "WHIP">>
STRAT_LOWER_BETTER == {"ERA", "WHIP"}
MinSample == 25

\* [...vals].sort((a, b) => a - b): insertion into an ascending sequence.
RECURSIVE InsertAsc(_, _)
InsertAsc(sorted, x) ==
    IF sorted = <<>> THEN <<x>>
    ELSE IF x < Head(sorted) THEN <<x>> \o sorted
    ELSE <<Head(sorted)>> \o InsertAsc(Tail(sorted), x)

RECURSIVE SortAsc(_)
SortAsc(vals) ==
    IF vals = <<>> THEN <<>>
    ELSE InsertAsc(SortAsc(Tail(vals)), Head(vals))

\* The binary search of pctRank: the number of sorted values <= x.
\* sorted is indexed from 1, so sorted[mid] of the code is sorted[mid + 1].
RECURSIVE UpperBound(_, _, _, _)
UpperBound(sorted, x, lo, hi) ==
    IF lo >= hi THEN lo
    ELSE LET mid == (lo + hi) \div 2
         IN  IF sorted[mid + 1] <= x
             THEN UpperBound(sorted, x, mid + 1, hi)
             ELSE UpperBound(sorted, x, lo, mid)

\* Number(q.toFixed(4)) of a rational a / b >= 0, in units of 1/10000.
ToFixed4(a, b) == (2 * 10000 * a + b) \div (2 * b)

\* pctRank(x) followed by toFixed(4), in units of 1/10000.
pctRank(sorted, cat, x) ==
    LET n == Len(sorted)
        lo == UpperBound(sorted, x, 0, n)
        rank == Max(0, lo - 1)
    IN  IF n <= 1 THEN 5000
        ELSE IF cat \in STRAT_LOWER_BETTER
             THEN ToFixed4(n - 1 - rank, n - 1)
             ELSE ToFixed4(rank, n - 1)

\* The finite values of one category among the rows of one type.
RECURSIVE CatVals(_, _, _)
CatVals(rows, cat, type) ==
    IF rows = <<>> THEN <<>>
    ELSE LET p == Head(rows)
             v == PercentileValue(p.stat[cat])
         IN  IF typeLabel(p.type) = type /\ v.some
             THEN <<v.v>> \o CatVals(Tail(rows), cat, type)
             ELSE CatVals(Tail(rows), cat, type)

\* One pass of the loop over cats: the rows with cat__w stored.
PercentilesForCat(rows, cat, type) ==
    LET vals == CatVals(rows, cat, type)
        sorted == SortAsc(vals)
    IN  IF Len(vals) < MinSample THEN rows
        ELSE [i \in DOMAIN rows |->
                LET p == rows[i]
                    v == PercentileValue(p.stat[cat])
                IN  IF typeLabel(p.type) = type /\ v.some
                    THEN [p EXCEPT !.comp[cat] = Num(pctRank(sorted, cat, v.v))]
                    ELSE p]

\* computePercentiles(players, cats, type)
RECURSIVE computePercentiles(_, _, _, _)
computePercentiles(rows, cats, i, type) ==
    IF i > Len(cats) THEN rows
    ELSE computePercentiles(PercentilesForCat(rows, cats[i], type),
                            cats, i + 1, type)

buildStrategyComponents(rows) ==
    computePercentiles(computePercentiles(rows, STRAT_CATS_HIT, 1, "hit"),
                       STRAT_CATS_PIT, 1, "pit")

\* detectCatStats(samplePlayer): at least two category columns are numeric.
detectCatStats(p) ==
    IF p.nil THEN FALSE
    ELSE Cardinality({c \in CatSet : getCatStat(p, c).some}) >= 2

-----------------------------------------------------------------------------
(* Roster storage: js/storage.js                                           *)

\* toInt(val, fallback): Math.trunc(Number(val)) where finite.  The cells
\* of the model hold integers, so trunc changes nothing.
toInt(val, fallback) ==
    LET n == NumberOf(val) IN IF n.some THEN n.v ELSE fallback

\* v ?? d
OrElse(v, d) == IF v.t \in {"undef", "null"} THEN d ELSE v

clampInt(n, min, max) == Max(min, Min(max, toInt(n, min)))

\* A variant of normalizeRosterPlayer that lets the contract year run up to
\* 10 whatever the length of the contract.
normalizeRosterPlayerAnyYear(p) ==
    LET contractTotal == clampInt(OrElse(p.contractTotal, Num(1)), 1, 10)
        contractYear == clampInt(OrElse(p.contractYear, Num(1)), 1, 10)
        price == Max(0, toInt(OrElse(p.price, Num(0)), 0))
    IN  [id |-> p.id,
         name |-> p.name,
         type |-> IF p.type = "hit" \/ p.type = "pit" THEN p.type ELSE "hit",
         team |-> p.team,
         pos |-> p.pos,
         underContract |-> p.underContract,
         contractYear |-> Num(contractYear),
         contractTotal |-> Num(contractTotal),
         price |-> Num(price)]

normalizeRosterPlayer(p) ==
    LET contractTotal == clampInt(OrElse(p.contractTotal, Num(1)), 1, 10)
        contractYear == clampInt(OrElse(p.contractYear, Num(1)), 1,
                                 contractTotal)
        price == Max(0, toInt(OrElse(p.price, Num(0)), 0))
    IN  [id |-> p.id,
         name |-> p.name,
         type |-> IF p.type = "hit" \/ p.type = "pit" THEN p.type ELSE "hit",
         team |-> p.team,
         pos |-> p.pos,
         underContract |-> p.underContract,
         contractYear |-> Num(contractYear),
         contractTotal |-> Num(contractTotal),
         price |-> Num(price)]

\* The index of the entry of byId whose id is id, 0 when there is none.
IndexOfId(byId, id) ==
    IF \E i \in DOMAIN byId : byId[i].id = id
    THEN CHOOSE i \in DOMAIN byId : byId[i].id = id
    ELSE 0

\* The loop of getRoster over the stored entries; byId is the Map in
\* insertion order.
\* The type getRoster gives an entry: only "pit" is a pitcher.
RosterType(r) == IF TrimLower(r.type) = "pit" THEN "pit" ELSE "hit"

\* { ...r, id: nextId, type, name } of a normalised entry r, where
\* nextId = getPlayerKey({ Type: type, Name: name }).
KeyedEntry(r) ==
    [r EXCEPT !.id = getPlayerKey(<<>>, RosterType(r), Trim(r.name)),
              !.type = RosterType(r),
              !.name = Trim(r.name)]

\* The entry kept when nextId is already in the Map: r over prev, with the
\* contract markers of prev where they are finite.
MergeEntries(prev, r) ==
    normalizeRosterPlayer(
        [r EXCEPT
            !.underContract = prev.underContract \/ r.underContract,
            !.contractYear = IF NumberOf(prev.contractYear).some
                             THEN prev.contractYear ELSE r.contractYear,
            !.contractTotal = IF NumberOf(prev.contractTotal).some
                              THEN prev.contractTotal ELSE r.contractTotal,
            !.price = IF NumberOf(prev.price).some
                      THEN prev.price ELSE r.price])

\* byId.set(nextId, ...): byId is the Map in insertion order.
PutEntry(byId, r) ==
    LET at == IndexOfId(byId, r.id)
    IN  IF at = 0 THEN Append(byId, r)
        ELSE [byId EXCEPT ![at] = MergeEntries(byId[at], r)]

\* The loop of getRoster over the stored entries.
RECURSIVE MigrateRoster(_, _, _)
MigrateRoster(stored, i, byId) ==
    IF i > Len(stored) THEN byId
    ELSE MigrateRoster(stored, i + 1,
             PutEntry(byId, KeyedEntry(normalizeRosterPlayer(stored[i]))))

\* What getRoster returns (value) and what localStorage holds afterwards
\* (stored): setRoster(migrated) only if an id or the length changed.
RosterResult(stored, migrated) ==
    [value |-> migrated,
     stored |-> IF \/ Len(migrated) # Len(stored)
                   \/ \E i \in DOMAIN migrated : migrated[i].id # stored[i].id
                THEN migrated ELSE stored]

getRoster(stored) ==
    IF stored = <<>> THEN [value |-> stored, stored |-> stored]
    ELSE RosterResult(stored, MigrateRoster(stored, 1, <<>>))

\* The type addToRosterFromCsv gives a CSV player: only "pit" is a pitcher.
CsvType(csv) == IF TrimLower(csv.Type) = "pit" THEN "pit" ELSE "hit"

\* The entry addToRosterFromCsv creates for a player not on the roster.
CreatedEntry(id, name, type, team, pos) ==
    normalizeRosterPlayer(
        [id |-> id, name |-> name, type |-> type, team |-> team, pos |-> pos,
         underContract |-> FALSE, contractYear |-> Num(1),
         contractTotal |-> Num(1), price |-> Num(0)])

\* The entry addToRosterFromCsv keeps for a player already on the roster:
\* existing.name || name, existing.team || team, existing.pos || pos.
FilledEntry(existing, name, team, pos) ==
    normalizeRosterPlayer(
        [existing EXCEPT !.name = IF @ # <<>> THEN @ ELSE name,
                         !.team = IF @ # "" THEN @ ELSE team,
                         !.pos = IF @ # <<>> THEN @ ELSE pos])

\* roster.map((r) => (r.id === id ? merged : r)) or [created, ...roster]
Upsert(list, id, name, type, team, pos) ==
    IF IndexOfId(list, id) # 0
    THEN [i \in DOMAIN list |->
            IF list[i].id = id
            THEN FilledEntry(list[IndexOfId(list, id)], name, team, pos)
            ELSE list[i]]
    ELSE <<CreatedEntry(id, name, type, team, pos)>> \o list

\* addToRosterFromCsv(csvPlayer): what setRoster leaves in localStorage.
addToRosterFromCsv(stored, csv) ==
    Upsert(getRoster(stored).value,
           getPlayerKey(<<>>, CsvType(csv), Trim(csv.Name)),
           Trim(csv.Name), CsvType(csv), csv.Team, csv.POS)

\* { ...a, ...b } of two objects
Spread(a, b) ==
    [f \in DOMAIN a \cup DOMAIN b |-> IF f \in DOMAIN b THEN b[f] ELSE a[f]]

\* updateRosterPlayer(id, patch): what localStorage holds afterwards.
updateRosterPlayer(stored, id, patch) ==
    IF IndexOfId(getRoster(stored).value, id) = 0
    THEN getRoster(stored).stored
    ELSE [getRoster(stored).value
             EXCEPT ![IndexOfId(getRoster(stored).value, id)] =
                 normalizeRosterPlayer([Spread(@, patch) EXCEPT !.id = id])]

\* removeRosterPlayer(id): what setRoster leaves in localStorage.
removeRosterPlayer(stored, id) ==
    SelectSeq(getRoster(stored).value, LAMBDA r : r.id # id)

\* DEFAULT_WEIGHTS, in tenths
DEFAULT_WEIGHTS == [c \in CatSet |-> 10]

\* migrateWeights(obj): older builds used the key SBN for SB.
migrateWeights(obj) ==
    IF "SB" \notin DOMAIN obj /\ "SBN" \in DOMAIN obj
    THEN [k \in (DOMAIN obj \ {"SBN"}) \cup {"SB"} |->
            IF k = "SB" THEN obj["SBN"] ELSE obj[k]]
    ELSE obj

\* normalizeCategoryWeights(partial)
normalizeCategoryWeights(partial) ==
    [k \in CatSet |->
        IF k \in DOMAIN migrateWeights(partial)
        THEN migrateWeights(partial)[k] ELSE DEFAULT_WEIGHTS[k]]

\* localStorage holds no hag_settings item.
NoSettings == [nil |-> TRUE]

\* No roster page or compare panel operation has run.
NoOp == [op |-> "none", n |-> 0]

\* The fallback of getSettings when localStorage holds no settings.
DefaultSettings ==
    [nil |-> FALSE, budget_total |-> Num(300), budget_remaining |-> Num(300),
     hitter_slots_total |-> Num(14), pitcher_slots_total |-> Num(9),
     category_weights |-> DEFAULT_WEIGHTS,
     category_weights_updated_at |-> Null, value_mode |-> "proj"]

\* getSettings(): s is the stored settings object, nil when there is none.
getSettings(s) ==
    IF s.nil THEN DefaultSettings
    ELSE [s EXCEPT !.category_weights = normalizeCategoryWeights(@)]

\* setSettings(next): what save("hag_settings", merged) stores.
setSettings(s, next) ==
    [Spread(getSettings(s), next)
        EXCEPT !.category_weights = normalizeCategoryWeights(@)]

\* A variant of SpentLoop that counts every entry of the roster.
RECURSIVE SpentLoopAll(_, _)
SpentLoopAll(list, i) ==
    IF i > Len(list) THEN 0
    ELSE Max(0, toInt(OrElse(list[i].price, Num(0)), 0))
         + SpentLoopAll(list, i + 1)

\* roster.reduce((sum, p) => sum + (under ? price : 0), 0)
RECURSIVE SpentLoop(_, _)
SpentLoop(list, i) ==
    IF i > Len(list) THEN 0
    ELSE (IF list[i].underContract
          THEN Max(0, toInt(OrElse(list[i].price, Num(0)), 0)) ELSE 0)
         + SpentLoop(list, i + 1)

\* recalcBudgetRemaining(): the stored settings afterwards; s is the stored
\* settings object and list is what getRoster() returns.
recalcBudgetRemaining(s, list) ==
    setSettings(s,
        [getSettings(s) EXCEPT !.budget_remaining =
            Num(Max(0, Max(0, toInt(OrElse(getSettings(s).budget_total,
                                           Num(0)), 0))
                       - SpentLoop(list, 1)))])

-----------------------------------------------------------------------------
(* Recommended Targets scorer: js/recommended-targets.js                   *)

\* num(v, fallback) of recommended-targets.js: Number(v) where finite, so a
\* blank or null is 0.
rtNum(v, fallback) ==
    LET n == NumberOf(v) IN IF n.some THEN n.v ELSE fallback

\* clamp(n, lo, hi) of recommended-targets.js, on integers.
rtClamp(n, lo, hi) == Max(lo, Min(hi, n))

\* normType(t) of recommended-targets.js: only "pit" is a pitcher.
rtNormType(t) == IF TrimLower(t) = "pit" THEN "pit" ELSE "hit"

RT_PIT_CATS == <<"ERA", "WHIP", "IP", "K", "QS", "SV", "HLD">>

\* A POS string is a sequence of position tokens and separators.
PosSeparators == {",", "/", " "}

UpperToken(tok) ==
    CASE tok = "ss" -> "SS" [] tok = "of" -> "OF" [] tok = "sp" -> "SP"
      [] OTHER -> tok

\* normPosList(pos): the set of its upper-case tokens (only includes() is
\* ever asked of the list).
normPosList(pos) ==
    {UpperToken(pos[i]) : i \in {j \in DOMAIN pos : pos[j] \notin PosSeparators}}

HitSlots == <<"C", "1B", "2B", "3B", "SS", "CI", "MI", "LF", "CF", "RF",
              "OF1", "OF2", "UT">>
PitSlots == <<"P1", "P2", "P3", "P4", "P5", "P6", "P7", "P8", "P9">>
AllSlots == HitSlots \o PitSlots

\* slotKey.startsWith("P")
StartsWithP(slotKey) == slotKey \in Range(PitSlots)

\* A variant of isEligibleForSlot whose UT slot accepts every player.
isEligibleForSlotAnyUT(p, slotKey) ==
    LET type == rtNormType(p.type)
        posList == normPosList(p.POS)
    IN  IF StartsWithP(slotKey) THEN type = "pit"
        ELSE IF slotKey = "UT" THEN TRUE
        ELSE IF slotKey \in {"OF1", "OF2"}
             THEN type = "hit" /\ posList \cap {"OF", "LF", "CF", "RF"} # {}
        ELSE IF slotKey = "CI"
             THEN type = "hit" /\ posList \cap {"1B", "3B"} # {}
        ELSE IF slotKey = "MI"
             THEN type = "hit" /\ posList \cap {"2B", "SS"} # {}
        ELSE type = "hit" /\ slotKey \in posList

isEligibleForSlot(p, slotKey) ==
    LET type == rtNormType(p.type)
        posList == normPosList(p.POS)
    IN  IF StartsWithP(slotKey) THEN type = "pit"
        ELSE IF slotKey = "UT" THEN type = "hit"
        ELSE IF slotKey \in {"OF1", "OF2"}
             THEN type = "hit" /\ posList \cap {"OF", "LF", "CF", "RF"} # {}
        ELSE IF slotKey = "CI"
             THEN type = "hit" /\ posList \cap {"1B", "3B"} # {}
        ELSE IF slotKey = "MI"
             THEN type = "hit" /\ posList \cap {"2B", "SS"} # {}
        ELSE type = "hit" /\ slotKey \in posList

\* getEmptySlotKeys(): the slots of the planner state that hold nothing.
getEmptySlotKeys(slots) == SelectSeq(AllSlots, LAMBDA k : slots[k] = NoKey)

BoostPitcher == 6
BoostUT == 4
BoostOF == 8
BoostCornerMiddle == 10
BoostStandard == 10

\* A variant of SlotBoost with the outfield slots above the standard slots
\* and the utility slot above the pitching slots.
SlotBoostOutfieldFirst(k) ==
    IF StartsWithP(k) THEN BoostUT
    ELSE IF k = "UT" THEN BoostPitcher
    ELSE IF k \in {"OF1", "OF2"} THEN BoostCornerMiddle
    ELSE IF k \in {"CI", "MI"} THEN BoostCornerMiddle
    ELSE BoostOF

SlotBoost(k) ==
    IF StartsWithP(k) THEN BoostPitcher
    ELSE IF k = "UT" THEN BoostUT
    ELSE IF k \in {"OF1", "OF2"} THEN BoostOF
    ELSE IF k \in {"CI", "MI"} THEN BoostCornerMiddle
    ELSE BoostStandard

\* A variant of needBoostLoop that counts every empty slot, eligible or not.
RECURSIVE needBoostLoopAnySlot(_, _, _, _)
needBoostLoopAnySlot(p, emptySlots, i, boost) ==
    IF i > Len(emptySlots) THEN boost
    ELSE needBoostLoopAnySlot(p, emptySlots, i + 1,
                              Max(boost, SlotBoost(emptySlots[i])))

RECURSIVE needBoostLoop(_, _, _, _)
needBoostLoop(p, emptySlots, i, boost) ==
    IF i > Len(emptySlots) THEN boost
    ELSE IF ~isEligibleForSlot(p, emptySlots[i])
         THEN needBoostLoop(p, emptySlots, i + 1, boost)
         ELSE needBoostLoop(p, emptySlots, i + 1,
                            Max(boost, SlotBoost(emptySlots[i])))

needBoostForPlayer(p, emptySlots) == needBoostLoop(p, emptySlots, 1, 0)

getStablePlayerKey(p) ==
    IF p.player_key # NoKey THEN p.player_key
    ELSE getPlayerKey(<<>>, rtNormType(p.type), Trim(p.Name))

pickFallbackPrice(p) ==
    LET m == getMarketEstimate(p)
    IN  IF m.some /\ m.v > 0 THEN m.v ELSE getBaselineVal(p, "proj")

RECURSIVE FitLoop(_, _, _, _, _)
FitLoop(p, w, cats, i, acc) ==
    IF i > Len(cats) THEN acc
    ELSE LET ww == w[cats[i]]
             v == getCatStat(p, cats[i])
         IN  IF ww = 0 \/ ~v.some THEN FitLoop(p, w, cats, i + 1, acc)
             ELSE FitLoop(p, w, cats, i + 1,
                          [any |-> TRUE, sum |-> acc.sum + v.v * ww])

\* computeFitRaw(player, weights, hasCatStats), in tenths of a stat unit.
computeFitRaw(p, w, hasCatStats) ==
    IF p.nil \/ ~hasCatStats THEN 0
    ELSE LET cats == IF rtNormType(p.type) = "pit" THEN RT_PIT_CATS
                     ELSE HIT_CATS
             acc == FitLoop(p, w, cats, 1, [any |-> FALSE, sum |-> 0])
         IN  IF acc.any THEN acc.sum ELSE 0

\* A variant of the exclusion test that forgets the auction targets.
ExcludedRosterOnly(key, rosterIds, targetKeys) == key \in rosterIds

\* if (rosterIds.has(key)) continue; if (targetKeys.has(key)) continue;
Excluded(key, rosterIds, targetKeys) ==
    key \in rosterIds \/ key \in targetKeys

\* livePrices[key]
LivePriceOf(prices, key) ==
    IF key \in DOMAIN prices THEN prices[key] ELSE Undef

ValueEdgeCap == 15
ScanLimit == 200

\* const price = (live != null && live !== "") ? num(live, 0)
\*                                                 : pickFallbackPrice(p)
PriceOf(p, live) ==
    IF live.t \notin {"undef", "null", "empty"} THEN rtNum(live, 0)
    ELSE pickFallbackPrice(p)

\* affordableOnly && maxPrice != null && price > maxPrice
Unaffordable(ctx, price) ==
    ctx.affordableOnly /\ ctx.maxPrice.some /\ price > ctx.maxPrice.v

\* The record pushed to scored; player is the index of the row in the pool.
ScoredRecord(p, i, key, emptySlots, baseVal, fitRaw, price) ==
    [key |-> key, player |-> i, baseVal |-> baseVal, fitRaw |-> fitRaw,
     price |-> price,
     valueEdge |-> rtClamp(baseVal - price, -ValueEdgeCap, ValueEdgeCap),
     needBoost |-> needBoostForPlayer(p, emptySlots),
     fitVal |-> R(0), score |-> R(0)]

\* fitRaws.push(fitRaw) comes before the affordability filter; scored.push
\* comes after it.
ScoreCandidate(p, i, key, ctx, st, baseVal, fitRaw, price) ==
    [scored |-> IF Unaffordable(ctx, price) THEN st.scored
                ELSE Append(st.scored,
                            ScoredRecord(p, i, key, ctx.emptySlots,
                                         baseVal, fitRaw, price)),
     fitRaws |-> Append(st.fitRaws, fitRaw)]

\* One pass of the loop of scorePlayers, for the row p = players[i].
ScoreKeyed(p, i, key, ctx, st) ==
    IF key = NoKey \/ Excluded(key, ctx.rosterIds, ctx.targetKeys) THEN st
    ELSE ScoreCandidate(p, i, key, ctx, st,
                        getBaselineVal(p, ctx.valueMode),
                        computeFitRaw(p, ctx.weights, ctx.hasCatStats),
                        PriceOf(p, LivePriceOf(ctx.livePrices, key)))

RECURSIVE ScoreLoop(_, _, _, _)
ScoreLoop(players, i, ctx, st) ==
    IF i > Len(players) THEN st
    ELSE ScoreLoop(players, i + 1, ctx,
                   ScoreKeyed(players[i], i, getStablePlayerKey(players[i]),
                              ctx, st))

SeqMin(xs) == IF xs = <<>> THEN 0
              ELSE CHOOSE m \in Range(xs) : \A x \in Range(xs) : m <= x
SeqMax(xs) == IF xs = <<>> THEN 0
              ELSE CHOOSE m \in Range(xs) : \A x \in Range(xs) : m >= x

\* A variant of Normalised that adds the whole value edge to the score.
NormalisedFullEdge(r, min, denom) ==
    LET fitNorm == IF denom > 0 THEN Rat(100 * (r.fitRaw - min), denom)
                   ELSE R(0)
    IN  [r EXCEPT !.fitVal = fitNorm,
                  !.score = RAdd(RAdd(fitNorm, R(r.valueEdge)),
                                 R(r.needBoost))]

\* r.fitVal and r.score of one scored record.  0.9 * valueEdge is
\* computed exactly, as 9 * valueEdge / 10.
Normalised(r, min, denom) ==
    LET fitNorm == IF denom > 0 THEN Rat(100 * (r.fitRaw - min), denom)
                   ELSE R(0)
    IN  [r EXCEPT !.fitVal = fitNorm,
                  !.score = RAdd(RAdd(fitNorm, Rat(9 * r.valueEdge, 10)),
                                 R(r.needBoost))]

\* scored.sort((a, b) => b.score - a.score): Array.prototype.sort is
\* stable, so a record goes behind every record whose score is not lower.
\* A variant of InsertByScore that puts a record before the records of
\* equal score.
RECURSIVE InsertBeforeEqual(_, _)
InsertBeforeEqual(sorted, r) ==
    IF sorted = <<>> THEN <<r>>
    ELSE IF RLe(Head(sorted).score, r.score) THEN <<r>> \o sorted
    ELSE <<Head(sorted)>> \o InsertBeforeEqual(Tail(sorted), r)

RECURSIVE InsertByScore(_, _)
InsertByScore(sorted, r) ==
    IF sorted = <<>> THEN <<r>>
    ELSE IF RLt(Head(sorted).score, r.score) THEN <<r>> \o sorted
    ELSE <<Head(sorted)>> \o InsertByScore(Tail(sorted), r)

RECURSIVE SortByScore(_, _, _)
SortByScore(rs, i, sorted) ==
    IF i > Len(rs) THEN sorted
    ELSE SortByScore(rs, i + 1, InsertByScore(sorted, rs[i]))

\* The second loop and the sort: fitVal and score of every scored record.
NormaliseAndSort(scored, min, max) ==
    SortByScore([i \in DOMAIN scored |-> Normalised(scored[i], min, max - min)],
                1, <<>>)

\* What scorePlayers reads before its loop.  got is the result of
\* getRoster().
ScoreContext(players, valueMode, o, store, got) ==
    [weights |-> store.weights,
     rosterIds |-> {TrimKey(got.value[i].id) : i \in DOMAIN got.value}
                       \ {NoKey},
     targetKeys |-> {TrimKey(store.targets[i].player_key) :
                        i \in DOMAIN store.targets} \ {NoKey},
     emptySlots |-> getEmptySlotKeys(store.planner),
     livePrices |-> store.livePrices,
     hasCatStats |-> \E i \in 1 .. Min(ScanLimit, Len(players)) :
                        detectCatStats(players[i]),
     affordableOnly |-> o.affordableOnly,
     maxPrice |-> NumberOf(o.maxPrice),
     valueMode |-> valueMode,
     stored |-> got.stored]

ScoreResult(ctx, st) ==
    [scored |-> NormaliseAndSort(st.scored, SeqMin(st.fitRaws),
                                 SeqMax(st.fitRaws)),
     emptySlots |-> ctx.emptySlots,
     hasCatStats |-> ctx.hasCatStats,
     stored |-> ctx.stored]

ScoreWith(players, ctx) ==
    ScoreResult(ctx, ScoreLoop(players, 1, ctx,
                               [scored |-> <<>>, fitRaws |-> <<>>]))

\* Bucket A: scored.filter((r) => r.needBoost > 0)
NeedsView(scored) == SelectSeq(scored, LAMBDA r : r.needBoost > 0)

\* sort((a, b) => (b.baseVal - b.price) - (a.baseVal - a.price)), stable
RECURSIVE InsertByDelta(_, _)
InsertByDelta(sorted, r) ==
    IF sorted = <<>> THEN <<r>>
    ELSE IF Head(sorted).baseVal - Head(sorted).price < r.baseVal - r.price
         THEN <<r>> \o sorted
    ELSE <<Head(sorted)>> \o InsertByDelta(Tail(sorted), r)

RECURSIVE SortByDelta(_, _, _)
SortByDelta(rs, i, sorted) ==
    IF i > Len(rs) THEN sorted
    ELSE SortByDelta(rs, i + 1, InsertByDelta(sorted, rs[i]))

\* A variant of ValuesView that keeps the composite-score order.
ValuesViewByScore(scored) == scored

\* Bucket B: scored.slice().sort(...) by baseVal - price
ValuesView(scored) == SortByDelta(scored, 1, <<>>)

\* sort((a, b) => b.fitVal - a.fitVal), stable
RECURSIVE InsertByFit(_, _)
InsertByFit(sorted, r) ==
    IF sorted = <<>> THEN <<r>>
    ELSE IF RLt(Head(sorted).fitVal, r.fitVal) THEN <<r>> \o sorted
    ELSE <<Head(sorted)>> \o InsertByFit(Tail(sorted), r)

RECURSIVE SortByFit(_, _, _)
SortByFit(rs, i, sorted) ==
    IF i > Len(rs) THEN sorted
    ELSE SortByFit(rs, i + 1, InsertByFit(sorted, rs[i]))

\* Bucket C: scored.slice().sort(...) by fitVal
FitsView(scored) == SortByFit(scored, 1, <<>>)

\* What mountRecommendedTargets keeps of a scoring: the scored list and the
\* three views it renders.
Mounted(out) ==
    [done |-> TRUE, scored |-> out.scored, emptySlots |-> out.emptySlots,
     hasCatStats |-> out.hasCatStats, needs |-> NeedsView(out.scored),
     values |-> ValuesView(out.scored), fits |-> FitsView(out.scored)]

\* scorePlayers(players, valueMode, opts) over the stored settings, roster,
\* targets, planner state and live prices.  stored is the roster that
\* getRoster() leaves in localStorage.
scorePlayers(players, valueMode, o, store) ==
    ScoreWith(players,
              ScoreContext(players, valueMode, o, store,
                           getRoster(store.roster)))

\* getDisplayName(p): the trimmed name, a dash when there is none.
getDisplayName(p) == IF Trim(p.Name) = <<>> THEN <<"-">> ELSE Trim(p.Name)

\* The object the add-roster action hands to addToRosterFromCsv.
QuickAddCsv(p) ==
    [Name |-> getDisplayName(p), Type |-> rtNormType(p.type), Team |-> "",
     POS |-> p.POS]

-----------------------------------------------------------------------------
(* Lineup planner: js/roster-page.js                                       *)

\* String(t).toLowerCase() on the type spellings of the model.
LowerType(s) ==
    CASE s = "Pitcher " -> "pitcher "
      [] s = "PIT" -> "pit"
      [] s = "Hitter" -> "hitter"
      [] OTHER -> s

\* isEligibleForSlot(player, slotKey) of roster-page.js, on a roster entry.
rpIsEligibleForSlot(p, slotKey) ==
    IF StartsWithP(slotKey) THEN LowerType(p.type) = "pit"
    ELSE IF slotKey = "UT" THEN LowerType(p.type) = "hit"
    ELSE IF slotKey \in {"OF1", "OF2"}
         THEN /\ LowerType(p.type) = "hit"
              /\ normPosList(p.pos) \cap {"OF", "LF", "CF", "RF"} # {}
    ELSE IF slotKey = "CI"
         THEN /\ LowerType(p.type) = "hit"
              /\ normPosList(p.pos) \cap {"1B", "3B"} # {}
    ELSE IF slotKey = "MI"
         THEN /\ LowerType(p.type) = "hit"
              /\ normPosList(p.pos) \cap {"2B", "SS"} # {}
    ELSE LowerType(p.type) = "hit" /\ slotKey \in normPosList(p.pos)

\* The planner state { slots, minors }; an empty slot holds NoKey.
\* renderPlanner(roster) up to savePlannerState(state): slots of players
\* who left the roster are emptied, minors is cut down to the roster, and a
\* player on minors is unassigned from every slot.
renderPlanner(st, rosterIds) ==
    [slots |-> [k \in DOMAIN st.slots |->
                  IF \/ st.slots[k] \notin rosterIds
                     \/ st.slots[k] \in Range(st.minors)
                  THEN NoKey ELSE st.slots[k]],
     minors |-> SelectSeq(st.minors, LAMBDA id : id \in rosterIds)]

\* A variant of setSlot that leaves the other slots as they are.
setSlotKeepSlots(st, slotKey, id) ==
    IF id = NoKey THEN [st EXCEPT !.slots[slotKey] = NoKey]
    ELSE [slots |-> [st.slots EXCEPT ![slotKey] = id],
          minors |-> SelectSeq(st.minors, LAMBDA m : m # id)]

\* setSlot(slotKey, playerIdOrEmpty) up to savePlannerState(next)
setSlot(st, slotKey, id) ==
    IF id = NoKey THEN [st EXCEPT !.slots[slotKey] = NoKey]
    ELSE [slots |-> [k \in DOMAIN st.slots |->
                       IF k = slotKey THEN id
                       ELSE IF st.slots[k] = id THEN NoKey
                       ELSE st.slots[k]],
          minors |-> SelectSeq(st.minors, LAMBDA m : m # id)]

\* moveToMinors(playerId) up to savePlannerState(next)
moveToMinors(st, id) ==
    [slots |-> [k \in DOMAIN st.slots |->
                  IF st.slots[k] = id THEN NoKey ELSE st.slots[k]],
     minors |-> IF id \in Range(st.minors) THEN st.minors
                ELSE Append(st.minors, id)]

\* removeFromMinors(playerId) up to savePlannerState(next)
removeFromMinors(st, id) ==
    [st EXCEPT !.minors = SelectSeq(st.minors, LAMBDA m : m # id)]

-----------------------------------------------------------------------------
(* Compare panel: js/compare.js                                            *)

MAX_PLAYERS == 4

\* normLoose(s) of compare.js: normalizeName, then quotes and periods are
\* dropped and dashes become spaces; the names of the model hold neither.
cmpNormLoose(s) == Trim(CollapseSpaces(ToLowerCase(normalizeName(s))))

\* buildIndexes(players): the key of a player, and _normList.  A name of
\* one word is its own lastFirstName, so its three aliases are one entry.
CompareKey(p) == getPlayerKey(<<>>, p.type, Trim(p.Name))

NormList(players) ==
    [i \in DOMAIN players |->
        [n |-> cmpNormLoose(Trim(players[i].Name)),
         key |-> CompareKey(players[i])]]

\* _byLooseName.get(q): the last player set under q, NoKey for none.
ByLooseName(list, q) ==
    IF \E i \in DOMAIN list : list[i].n = q
    THEN list[CHOOSE i \in DOMAIN list :
                /\ list[i].n = q
                /\ \A j \in DOMAIN list : list[j].n = q => j <= i].key
    ELSE NoKey

\* n.includes(q) and n.startsWith(q)
Includes(n, q) ==
    \E i \in 1 .. Len(n) - Len(q) + 1 : SubSeq(n, i, i + Len(q) - 1) = q

StartsWith(n, q) == Len(q) <= Len(n) /\ SubSeq(n, 1, Len(q)) = q

\* (item.n.startsWith(q) ? 0 : 1) * 1000 + item.n.length
MatchScore(n, q) == (IF StartsWith(n, q) THEN 0 ELSE 1000) + Len(n)

\* The partial match of addByName: the first item of the lowest score among
\* the items whose name includes q.
BestMatch(list, q) ==
    IF \E i \in DOMAIN list : list[i].n # <<>> /\ Includes(list[i].n, q)
    THEN list[CHOOSE i \in DOMAIN list :
                /\ list[i].n # <<>> /\ Includes(list[i].n, q)
                /\ \A j \in DOMAIN list :
                      (list[j].n # <<>> /\ Includes(list[j].n, q))
                          => \/ MatchScore(list[i].n, q)
                                  < MatchScore(list[j].n, q)
                             \/ /\ MatchScore(list[i].n, q)
                                      = MatchScore(list[j].n, q)
                                /\ i <= j].key
    ELSE NoKey

\* The key addByName finds for a name, NoKey when it returns false.
ResolveName(list, name) ==
    IF cmpNormLoose(Trim(name)) = <<>> THEN NoKey
    ELSE IF ByLooseName(list, cmpNormLoose(Trim(name))) # NoKey
         THEN ByLooseName(list, cmpNormLoose(Trim(name)))
    ELSE BestMatch(list, cmpNormLoose(Trim(name)))

\* loadKeys(): arr.filter(Boolean)
loadKeys(stored) == SelectSeq(stored, LAMBDA k : k # NoKey)

\* A variant of PushKey that keeps every key.
PushKeyNoLimit(keys, key) ==
    IF key \in Range(keys) THEN keys ELSE Append(keys, key)

\* if (keys.includes(key)) return true;
\* saveKeys([...keys, key].slice(-MAX_PLAYERS))
PushKey(keys, key) ==
    IF key \in Range(keys) THEN keys
    ELSE SubSeq(Append(keys, key),
                Max(1, Len(keys) + 2 - MAX_PLAYERS), Len(keys) + 1)

\* addByName(name): what localStorage holds afterwards.
addByName(stored, list, name) ==
    IF ResolveName(list, name) = NoKey THEN stored
    ELSE PushKey(loadKeys(stored), ResolveName(list, name))

\* addByKey(key): byKey is the set of the keys of _byKey.
addByKey(stored, byKey, key) ==
    IF TrimKey(key) = NoKey \/ TrimKey(key) \notin byKey THEN stored
    ELSE PushKey(loadKeys(stored), TrimKey(key))

\* removeKey(key)
removeKey(stored, key) == SelectSeq(loadKeys(stored), LAMBDA k : k # key)

-----------------------------------------------------------------------------
(* Inputs of the pricing specifications                                    *)

BlankCells == [c \in CatSet |-> Undef]

Cells2(c1, v1, c2, v2) ==
    [c \in CatSet |-> IF c = c1 THEN v1 ELSE IF c = c2 THEN v2 ELSE Undef]

\* A row as loadAuctionPlayers / initAuctionPool leave it.
Row(type, v26, mkt, imp, a25, stat, comp) ==
    [nil |-> FALSE, type |-> type,
     player_key |-> NoKey, Name |-> <<>>, POS |-> <<>>,
     auction_value_26 |-> v26, market_estimate |-> mkt,
     auction_price_25_imputed |-> imp, auction_price_25 |-> a25,
     stat |-> stat, comp |-> comp]

\* lookupPlayerByName found no row: the player argument is null.
NullRow ==
    [nil |-> TRUE, type |-> "",
     player_key |-> NoKey, Name |-> <<>>, POS |-> <<>>,
     auction_value_26 |-> Undef, market_estimate |-> Undef,
     auction_price_25_imputed |-> Undef, auction_price_25 |-> Undef,
     stat |-> BlankCells, comp |-> BlankCells]

StatProfiles ==
    { [type |-> "hit", stat |-> Cells2("OPS", Num(1), "HR", Num(1)),
       comp |-> BlankCells],
      [type |-> "hit", stat |-> Cells2("OPS", Num(2), "HR", Empty),
       comp |-> BlankCells],
      [type |-> "hit", stat |-> BlankCells, comp |-> BlankCells],
      [type |-> "pit", stat |-> Cells2("ERA", Num(3), "K", Num(9)),
       comp |-> Cells2("ERA", Num(5000), "K", Num(2500))],
      [type |-> "pitcher", stat |-> Cells2("ERA", Str, "K", Num(4)),
       comp |-> BlankCells] }

PricingRows ==
    { Row(sp.type, v26, mkt, imp, Undef, sp.stat, sp.comp) :
        sp \in StatProfiles,
        v26 \in {Undef, Num(0), Num(30)},
        mkt \in {Undef, Num(35)},
        imp \in {Undef, Num(12)} }
    \cup {NullRow}

\* Weight sets in tenths; 10 is the neutral weight 1.0.
WeightsWith(c1, v1, c2, v2) ==
    [c \in CatSet |-> IF c = c1 THEN v1 ELSE IF c = c2 THEN v2 ELSE 10]

PricingWeights ==
    { WeightsWith("OPS", 10, "HR", 10),
      WeightsWith("OPS", 0, "ERA", 0),
      WeightsWith("HR", 12, "K", 20),
      WeightsWith("OPS", 0, "HR", 0) }

PlanCells == {Num(0), Num(4), Num(10), Num(25), Null}
MaxCells == {Num(0), Num(20)}

CapsSet ==
    { [strategyCap |-> Undef, deltaCap |-> Undef],
      [strategyCap |-> Num(2), deltaCap |-> Undef],
      [strategyCap |-> Undef, deltaCap |-> Num(5)],
      [strategyCap |-> Undef, deltaCap |-> Num(-5)] }

\* Anchor cells of the baseline specification: present, absent, blank,
\* non-numeric, zero and negative.
BaselineRows ==
    { Row("hit", v26, mkt, imp, a25, BlankCells, BlankCells) :
        v26 \in {Undef, Empty, Str, Num(0), Num(30), Num(-5)},
        mkt \in {Undef, Str, Num(0), Num(35), Num(-4)},
        imp \in {Undef, Empty, Num(12), Num(-3)},
        a25 \in {Undef, Str, Num(8)} }
    \cup {NullRow}

-----------------------------------------------------------------------------
(* Inputs of the pool specification                                        *)

\* The pool holds MinSample - 1 pitchers with distinct ERA values, one of
\* them without a K value, and NumVarRows further rows.
NumVarRows == 2

FillerRow(i) ==
    Row("pit", Num(i), Undef, Undef, Undef,
        Cells2("ERA", Num(20000 + 1000 * i),
               "K", IF i = 1 THEN Empty ELSE Num(100000 + 10000 * i)),
        BlankCells)

Fillers == [i \in 1 .. (MinSample - 1) |-> FillerRow(i)]

\* Rows whose cells are numeric, blank, missing or not a number.
VarRows ==
    { Row("pit", Num(10), Undef, Undef, Undef,
          Cells2("ERA", era, "K", k), BlankCells) :
        era \in {Undef, Empty, Str, Num(21500), Num(60000)},
        k \in {Empty, Num(125000)} }
    \cup
    { Row("hit", Num(10), Undef, Undef, Undef,
          Cells2("OPS", ops, "ERA", Empty), BlankCells) :
        ops \in {Empty, Num(9000)} }

VarRowSeqs == [1 .. NumVarRows -> VarRows]

-----------------------------------------------------------------------------
(* Inputs of the scorer specification                                      *)

MaxPool == 3

NameJoAb == <<"J", "o", " ", "A", "b">>
NameAlBo == <<"A", "l", " ", "B", "o">>
NameBoSa == <<"B", "o", " ", "S", "a">>
NameSalJo == <<"S", "a", "l", " ", "J", "o">>
NameJose == <<"J", "o", "s", "e_acute">>

\* A pool row as the loader and initAuctionPool leave it: the key is made
\* from the trimmed lower-case type column, the type is its typeLabel.
PoolRow(rawType, name, pos, v26, mkt, stat) ==
    [Row(typeLabel(rawType), v26, mkt, Undef, Undef, stat, BlankCells)
        EXCEPT !.player_key = getPlayerKey(<<>>, rawType, name),
               !.Name = name, !.POS = pos]

ScorerRows ==
    { PoolRow("hit", NameJoAb, <<"SS">>, Num(20), Undef,
              Cells2("OPS", Num(8), "HR", Num(30))),
      PoolRow("hit", NameAlBo, <<"of">>, Num(10), Num(35),
              Cells2("OPS", Num(7), "HR", Num(10))),
      PoolRow("pit", NameBoSa, <<"SP">>, Num(30), Undef,
              Cells2("ERA", Num(3), "K", Num(200))),
      PoolRow("hit", NameSalJo, <<"1B", "/", "3B">>, Num(5), Undef,
              Cells2("OPS", Num(8), "HR", Num(30))),
      PoolRow("hit", NameJose, <<>>, Num(0), Undef, BlankCells) }

\* Pools of at most MaxPool distinct rows, in any order.
ScorerPools ==
    UNION { {ps \in [1 .. n -> ScorerRows] :
                \A i, j \in 1 .. n : i # j => ps[i] # ps[j]} :
            n \in 0 .. MaxPool }

RosterEntry(id, name, total) ==
    [id |-> id, name |-> name, type |-> "hit", team |-> "", pos |-> <<>>,
     underContract |-> TRUE, contractYear |-> Num(1),
     contractTotal |-> total, price |-> Num(1)]

\* The players of the lineup planner specification: NumPlannerIds players
\* on the roster, and one player id that is not on the roster.
NumPlannerIds == 2
PlannerNames == <<"a", "b", "c", "d">>
PlannerId(i) == Key("hit", <<PlannerNames[i]>>)
PlannerRoster ==
    [i \in 1 .. NumPlannerIds |->
        RosterEntry(PlannerId(i), <<PlannerNames[i]>>, Num(1))]
PlannerArgs == {PlannerId(i) : i \in 1 .. NumPlannerIds + 1}

\* The players of the compare panel specification, with names of one word,
\* and the names typed into the panel: a full name, a first letter, a
\* letter every name holds, a letter no name holds, and nothing.
NumComparePlayers == 5
CompareLetters == <<"a", "b", "c", "d", "e", "f">>
ComparePlayers ==
    [i \in 1 .. NumComparePlayers |->
        [Name |-> <<CompareLetters[i], "o">>, type |-> "hit"]]
CompareKeys == {CompareKey(ComparePlayers[i]) : i \in DOMAIN ComparePlayers}
CompareQueries ==
    {ComparePlayers[i].Name : i \in DOMAIN ComparePlayers}
        \cup {<<"B">>, <<"o">>, <<"z">>, <<" ">>}

\* The inputs of the roster page specification: at most MaxRosterOps
\* operations; the players of the search results; the ids of the roster
\* rows; patches of one field, as the page sends them and others.
MaxRosterOps == 3

CsvPlayers ==
    { [Name |-> NameJoAb, Type |-> "hit", Team |-> "", POS |-> <<"SS">>],
      [Name |-> <<" ">> \o NameBoSa, Type |-> "PIT", Team |-> "",
       POS |-> <<"SP">>],
      [Name |-> NameJose, Type |-> "pitcher", Team |-> "", POS |-> <<>>] }

RosterArgs ==
    { Key("hit", <<"j", "o", " ", "a", "b">>),
      Key("pit", <<"b", "o", " ", "s", "a">>),
      Key("hit", <<"j", "o", "s", "e">>) }

Patches ==
    { [underContract |-> TRUE], [underContract |-> FALSE],
      [contractYear |-> Num(5)], [contractTotal |-> Num(12)],
      [contractTotal |-> Num(3)], [price |-> Num(7)], [price |-> Num(-3)],
      [price |-> Str], [name |-> NameJose], [type |-> "DH"] }

\* No stored settings; settings of the current build; settings of an older
\* build, with the weight of SB under the key SBN.
SettingsStates ==
    { NoSettings,
      [DefaultSettings EXCEPT !.budget_total = Num(10),
                              !.budget_remaining = Num(10)],
      [DefaultSettings EXCEPT
          !.budget_remaining = Num(0),
          !.value_mode = "market",
          !.category_weights =
              [k \in (CatSet \ {"SB", "AVG"}) \cup {"SBN"} |->
                  IF k = "SBN" THEN 15 ELSE 10]] }

\* Pool rows whose type column is spelt out, and a row of a file with an
\* explicit id column.
QuickAddRows ==
    ScorerRows \cup
    { PoolRow("pitcher", NameBoSa, <<"RP">>, Num(12), Undef,
              Cells2("ERA", Num(4), "K", Num(90))),
      [PoolRow("hit", NameSalJo, <<"C">>, Num(8), Undef,
               Cells2("OPS", Num(7), "HR", Num(12)))
          EXCEPT !.player_key = getPlayerKey(<<"7">>, "hit", NameSalJo)] }

\* Pools of at most MaxPool rows with distinct keys, in any order.
QuickAddPools ==
    UNION { {ps \in [1 .. n -> QuickAddRows] :
                \A i, j \in 1 .. n :
                    i # j => ps[i].player_key # ps[j].player_key} :
            n \in 1 .. MaxPool }

\* An empty roster, a roster of the current build, and a roster of an older
\* build whose ids are not normalised and name the same player twice.
Rosters ==
    { <<>>,
      <<RosterEntry(Key("hit", <<"j", "o", "s", "e">>),
                    <<"J", "o", "s", "e">>, Num(2))>>,
      <<RosterEntry(Key("hit", NameJoAb), NameJoAb, Undef),
        RosterEntry(Key("hit", <<"j", "o", " ", "a", "b">>),
                    <<"j", "o", " ", " ", "a", "b">>, Num(3))>> }

TargetFor(row) == [player_key |-> row.player_key, name |-> row.Name,
                   type |-> row.type]

TargetLists ==
    { <<>>,
      <<TargetFor(PoolRow("hit", NameAlBo, <<"of">>, Num(10), Num(35),
                          BlankCells))>> }

LiveKeys == {Key("hit", <<"j", "o", " ", "a", "b">>)}
LivePriceMaps == [LiveKeys -> {Undef, Num(40), Num(12)}]

SlotSet == Range(AllSlots)
PlannerStates ==
    { [k \in SlotSet |-> NoKey],
      [k \in SlotSet |-> IF k \in {"UT", "P1"} THEN NoKey
                         ELSE Key("hit", <<"x">>)],
      [k \in SlotSet |-> IF k = "SS" THEN NoKey
                         ELSE Key("hit", <<"x">>)] }

RecFilterStates ==
    { [affordableOnly |-> FALSE, maxPrice |-> Num(9999)],
      [affordableOnly |-> TRUE, maxPrice |-> Num(20)] }

NoRec == [done |-> FALSE, scored |-> <<>>, emptySlots |-> <<>>,
          hasCatStats |-> FALSE, needs |-> <<>>, values |-> <<>>,
          fits |-> <<>>]

-----------------------------------------------------------------------------
(* Identity resolver: the loaders of js/auction-data.js and                *)
(* js/projections-data.js, initAuctionPool and the name index of            *)
(* js/auction-page.js                                                       *)

\* A data row of master.csv is a record keyed by the headers: Name and POS
\* are strings, type is the type column as written, id is the explicit id
\* column (<<>> when the file has none), draftable is the flag as written,
\* every other column is a cell.

\* v == null || v === ""
BlankCell(c) == c.t \in {"undef", "null", "empty"}

\* Number(v ?? 0) || 0, and num(v) of auction-page.js
NumberOrZero(c) == IF c.t = "num" THEN c.n ELSE 0

\* A combining mark U+0300..U+036F occurs in String(s || "").normalize("NFD").
hasDiacritics(s) == \E i \in DOMAIN NFD(s) : NFD(s)[i] \in CombiningMarks

UpperPos(pos) == [i \in DOMAIN pos |-> UpperToken(pos[i])]

\* The shadow migration of loadAuctionPlayers: auction_value_26_shadow is
\* promoted when auction_value_26 is blank or 0.
PromoteShadow(v26, sh) ==
    IF (BlankCell(v26) \/ v26 = Num(0)) /\ sh.t = "num" /\ sh.n > 0
    THEN sh ELSE v26

\* The row loadAuctionPlayers makes of a data row.
loadAuctionRow(raw) ==
    [raw EXCEPT
        !.Name = Trim(raw.Name),
        !.type = TrimLower(raw.type),
        !.POS = UpperPos(raw.POS),
        !.auction_value_26 = PromoteShadow(raw.auction_value_26,
                                           raw.auction_value_26_shadow),
        !.player_key = getPlayerKey(<<>>, TrimLower(raw.type),
                                    Trim(raw.Name))]

\* String(p?.draftable ?? "").toUpperCase()
UpperFlag(s) == IF s = "true" THEN "TRUE" ELSE s

scoreRow(p) ==
    NumberOrZero(p.auction_value_26) * 100000
    + (IF NumberOrZero(p.auction_price_25_imputed) # 0
       THEN NumberOrZero(p.auction_price_25_imputed)
       ELSE NumberOrZero(p.auction_price_25)) * 100
    + (IF hasDiacritics(p.Name) THEN 1 ELSE 0) * 10
    + (IF UpperFlag(p.draftable) = "TRUE" THEN 1 ELSE 0)

\* The position in the Map byKey (in insertion order) of key, 0 when the
\* Map does not have it.
IndexOfKey(byKey, key) ==
    IF \E i \in DOMAIN byKey : TrimKey(byKey[i].player_key) = key
    THEN CHOOSE i \in DOMAIN byKey : TrimKey(byKey[i].player_key) = key
    ELSE 0

\* byKey.set(key, scoreRow(p) > scoreRow(cur) ? p : cur)
KeepBetter(byKey, at, p) ==
    IF at = 0 THEN Append(byKey, p)
    ELSE IF scoreRow(p) > scoreRow(byKey[at]) THEN [byKey EXCEPT ![at] = p]
    ELSE byKey

RECURSIVE DedupeByScore(_, _, _)
DedupeByScore(players, i, byKey) ==
    IF i > Len(players) THEN byKey
    ELSE IF TrimKey(players[i].player_key) = NoKey
         THEN DedupeByScore(players, i + 1, byKey)
         ELSE DedupeByScore(players, i + 1,
                  KeepBetter(byKey,
                             IndexOfKey(byKey, TrimKey(players[i].player_key)),
                             players[i]))

loadAuctionPlayers(csv) ==
    DedupeByScore([i \in DOMAIN csv |-> loadAuctionRow(csv[i])], 1, <<>>)

\* pick(...) of normalizeStats: the value, "" when the column is missing.
pick(c) == IF c.t \in {"undef", "empty"} THEN Empty ELSE c

\* The row loadPlayers makes of a data row.
loadPlayersRow(raw) ==
    [raw EXCEPT
        !.Name = Trim(raw.Name),
        !.type = TrimLower(raw.type),
        !.PA = pick(raw.PA),
        !.stat = [c \in CatSet |-> pick(raw.stat[c])],
        !.player_key = getPlayerKey(raw.id, TrimLower(raw.type),
                                    Trim(raw.Name))]

\* v !== undefined && v !== "" && String(v).trim() !== ""
Filled(c) == c.t \notin {"undef", "empty"}

\* filledCount(p) in quarters: 4 for every populated stat field, 1 for an
\* accented display name (0.25 in the source).
filledCount(p) ==
    4 * Cardinality({c \in CatSet : Filled(p.stat[c])})
    + (IF Filled(p.PA) THEN 4 ELSE 0)
    + (IF hasDiacritics(p.Name) THEN 1 ELSE 0)

\* byKey.set(key, filledCount(p) > filledCount(cur) ? p : cur)
KeepFuller(byKey, at, p) ==
    IF at = 0 THEN Append(byKey, p)
    ELSE IF filledCount(p) > filledCount(byKey[at])
         THEN [byKey EXCEPT ![at] = p]
    ELSE byKey

RECURSIVE dedupeLoop(_, _, _)
dedupeLoop(players, i, byKey) ==
    IF i > Len(players) THEN byKey
    ELSE IF TrimKey(players[i].player_key) = NoKey
         THEN dedupeLoop(players, i + 1, byKey)
         ELSE dedupeLoop(players, i + 1,
                  KeepFuller(byKey,
                             IndexOfKey(byKey, TrimKey(players[i].player_key)),
                             players[i]))

dedupeByPlayerKey(players) == dedupeLoop(players, 1, <<>>)

\* loadPlayers(): the deduped players of master.csv
loadPlayers(csv) ==
    dedupeByPlayerKey([i \in DOMAIN csv |-> loadPlayersRow(csv[i])])

\* initAuctionPool, steps 1 and 2: names trimmed, type replaced by typeLabel.
NormalizeRows(rows) ==
    [i \in DOMAIN rows |->
        [rows[i] EXCEPT !.Name = Trim(rows[i].Name),
                        !.type = typeLabel(rows[i].type)]]

\* `${normalizeName(p.Name)}|${typeLabel(p.type)}`
MergeKey(p) == [name |-> normalizeName(p.Name), type |-> typeLabel(p.type)]

\* projMap.get(key): the position in projOnly of the first named row with
\* this key, 0 when there is none.
ProjIndex(projOnly, key) ==
    IF \E i \in DOMAIN projOnly :
          projOnly[i].Name # <<>> /\ MergeKey(projOnly[i]) = key
    THEN CHOOSE i \in DOMAIN projOnly :
            /\ projOnly[i].Name # <<>> /\ MergeKey(projOnly[i]) = key
            /\ \A j \in 1 .. (i - 1) :
                  ~(projOnly[j].Name # <<>> /\ MergeKey(projOnly[j]) = key)
    ELSE 0

\* for (const c of statCols) if (p[c] != null && p[c] !== "") a[c] = p[c]
JoinStats(a, p) ==
    [a EXCEPT
        !.PA = IF BlankCell(p.PA) THEN a.PA ELSE p.PA,
        !.stat = [c \in CatSet |->
                    IF BlankCell(p.stat[c]) THEN a.stat[c] ELSE p.stat[c]],
        !.POS = IF p.POS = <<>> THEN a.POS ELSE p.POS]

Joined(a, projOnly, at) == IF at = 0 THEN a ELSE JoinStats(a, projOnly[at])

FillCell(w, l) == IF BlankCell(w) /\ ~BlankCell(l) THEN l ELSE w

\* fill any missing fields from the loser into the winner: tier, flags,
\* POS, display_role and the stat columns.
Backfill(winner, loser) ==
    [winner EXCEPT
        !.tier = FillCell(winner.tier, loser.tier),
        !.flags = FillCell(winner.flags, loser.flags),
        !.display_role = FillCell(winner.display_role, loser.display_role),
        !.POS = IF winner.POS = <<>> /\ loser.POS # <<>>
                THEN loser.POS ELSE winner.POS,
        !.PA = FillCell(winner.PA, loser.PA),
        !.stat = [c \in CatSet |-> FillCell(winner.stat[c], loser.stat[c])]]

\* The duplicate branch of the auction loop: the row with the greater
\* auction value wins, the existing row on a tie.
MergeDuplicate(existing, a) ==
    IF NumberOrZero(a.auction_value_26) > NumberOrZero(existing.auction_value_26)
    THEN Backfill(a, existing)
    ELSE Backfill(existing, a)

\* idxByKey.get(key): the position in merged of the row with this key.
MergeIndex(merged, key) ==
    IF \E i \in DOMAIN merged : MergeKey(merged[i]) = key
    THEN CHOOSE i \in DOMAIN merged : MergeKey(merged[i]) = key
    ELSE 0

PutMerged(merged, at, a) ==
    IF at = 0 THEN Append(merged, a)
    ELSE [merged EXCEPT ![at] = MergeDuplicate(merged[at], a)]

\* for (const a of auctionOnly) { ... }
RECURSIVE MergeAuction(_, _, _, _)
MergeAuction(auctionOnly, projOnly, i, merged) ==
    IF i > Len(auctionOnly) THEN merged
    ELSE IF auctionOnly[i].Name = <<>>
         THEN MergeAuction(auctionOnly, projOnly, i + 1, merged)
         ELSE MergeAuction(auctionOnly, projOnly, i + 1,
                  PutMerged(merged,
                            MergeIndex(merged, MergeKey(auctionOnly[i])),
                            Joined(auctionOnly[i], projOnly,
                                   ProjIndex(projOnly,
                                             MergeKey(auctionOnly[i])))))

\* The row appended for a projection-only player.
ProjOnlyRow(p) ==
    [p EXCEPT
        !.auction_value_26 = IF BlankCell(p.auction_value_26) THEN Num(0)
                             ELSE p.auction_value_26,
        !.tier = IF p.tier.t \in {"undef", "null"} THEN Empty ELSE p.tier,
        !.flags = IF p.flags.t \in {"undef", "null"} THEN Empty ELSE p.flags]

\* for (const p of projOnly) { ... if (seen.has(key)) continue; ... }
RECURSIVE AppendProjOnly(_, _, _, _)
AppendProjOnly(projOnly, i, seen, merged) ==
    IF i > Len(projOnly) THEN merged
    ELSE IF projOnly[i].Name = <<>> \/ MergeKey(projOnly[i]) \in seen
         THEN AppendProjOnly(projOnly, i + 1, seen, merged)
         ELSE AppendProjOnly(projOnly, i + 1, seen,
                             Append(merged, ProjOnlyRow(projOnly[i])))

MergedKeys(merged) == {MergeKey(merged[i]) : i \in DOMAIN merged}

MergeRows(auctionOnly, projOnly, merged) ==
    AppendProjOnly(projOnly, 1, MergedKeys(merged), merged)

\* The rows initAuctionPool stores in AUCTION_PLAYERS.
initAuctionPool(auctionRaw, projRaw) ==
    buildStrategyComponents(
        MergeRows(NormalizeRows(auctionRaw), NormalizeRows(projRaw),
                  MergeAuction(NormalizeRows(auctionRaw),
                               NormalizeRows(projRaw), 1, <<>>)))

\* The scan of the first 150 rows for category columns.
CatStatsScan == 150

hasCatStatsOf(players) ==
    \E i \in 1 .. Min(CatStatsScan, Len(players)) : detectCatStats(players[i])

\* norm(s) of auction-page.js; "nbsp" is the no-break space U+00A0.
ReplaceNbsp(s) == [i \in DOMAIN s |-> IF s[i] = "nbsp" THEN " " ELSE s[i]]

norm(s) == ToLowerCase(Trim(ReplaceNbsp(s)))

\* The characters normLoose drops: . ' and the right single quote.
LooseDropped == {".", "'", "rsquo"}

normLoose(s) ==
    Trim(SelectSeq(CollapseSpaces(norm(s)), LAMBDA c : c \notin LooseDropped))

\* buildPlayerIndex: the first named row of every strict and loose key.
FirstStrict(players, k) ==
    CHOOSE i \in DOMAIN players :
        /\ Trim(players[i].Name) # <<>> /\ norm(Trim(players[i].Name)) = k
        /\ \A j \in 1 .. (i - 1) :
              ~(Trim(players[j].Name) # <<>>
                /\ norm(Trim(players[j].Name)) = k)

FirstLoose(players, k) ==
    CHOOSE i \in DOMAIN players :
        /\ Trim(players[i].Name) # <<>>
        /\ normLoose(Trim(players[i].Name)) = k
        /\ \A j \in 1 .. (i - 1) :
              ~(Trim(players[j].Name) # <<>>
                /\ normLoose(Trim(players[j].Name)) = k)

NamedRows(players) == {i \in DOMAIN players : Trim(players[i].Name) # <<>>}

buildStrictIndex(players) ==
    [k \in {norm(Trim(players[i].Name)) : i \in NamedRows(players)} |->
        players[FirstStrict(players, k)]]

buildLooseIndex(players) ==
    [k \in {normLoose(Trim(players[i].Name)) : i \in NamedRows(players)} |->
        players[FirstLoose(players, k)]]

\* raw.split(",")
RECURSIVE SplitComma(_, _)
SplitComma(str, cur) ==
    IF str = <<>> THEN <<cur>>
    ELSE IF Head(str) = "," THEN <<cur>> \o SplitComma(Tail(str), <<>>)
    ELSE SplitComma(Tail(str), Append(cur, Head(str)))

\* .map((s) => s.trim()).filter(Boolean)
TrimmedParts(raw) ==
    SelectSeq([i \in DOMAIN SplitComma(raw, <<>>) |->
                  Trim(SplitComma(raw, <<>>)[i])],
              LAMBDA s : s # <<>>)

\* parts.join(" ")
RECURSIVE JoinSpace(_)
JoinSpace(parts) ==
    IF parts = <<>> THEN <<>>
    ELSE IF Len(parts) = 1 THEN parts[1]
    ELSE parts[1] \o <<" ">> \o JoinSpace(Tail(parts))

\* `${parts.slice(1).join(" ")} ${parts[0]}`.trim()
Flipped(parts) == Trim(JoinSpace(Tail(parts)) \o <<" ">> \o parts[1])

\* The comma branch of lookupPlayerByName.
lookupFlipped(flipped, byName, byNameLoose) ==
    IF norm(flipped) \in DOMAIN byName THEN Some(byName[norm(flipped)])
    ELSE IF normLoose(flipped) \in DOMAIN byNameLoose
         THEN Some(byNameLoose[normLoose(flipped)])
    ELSE None

lookupPlayerByName(name, byName, byNameLoose) ==
    IF norm(name) # <<>> /\ norm(name) \in DOMAIN byName
    THEN Some(byName[norm(name)])
    ELSE IF normLoose(name) # <<>> /\ normLoose(name) \in DOMAIN byNameLoose
         THEN Some(byNameLoose[normLoose(name)])
    ELSE IF "," \in Range(Trim(name)) /\ Len(TrimmedParts(Trim(name))) >= 2
         THEN lookupFlipped(Flipped(TrimmedParts(Trim(name))),
                            byName, byNameLoose)
    ELSE None

-----------------------------------------------------------------------------
(* Inputs of the resolver specification                                    *)

MaxCsvRows == 3

NameJoseAb == <<"J", "o", "s", "e_acute", " ", "A", "b">>
NameJoseAbPlain == <<"J", "o", "s", "e", " ", "A", "b">>
NameAlBoSr == <<"A", "l", " ", "B", "o", " ", "S", "r", ".">>

\* A data row of master.csv: a blank field of a column the file has is "",
\* a column the file does not have is undefined.
CsvRow(type, name, pos, v26, mkt, tier, draftable, stat) ==
    [nil |-> FALSE, type |-> type, Name |-> name, POS |-> pos,
     player_key |-> NoKey, id |-> <<>>,
     auction_value_26 |-> v26, auction_value_26_shadow |-> Undef,
     market_estimate |-> mkt,
     auction_price_25_imputed |-> Undef, auction_price_25 |-> Undef,
     tier |-> tier, flags |-> Undef, display_role |-> Undef,
     draftable |-> draftable, PA |-> Undef,
     stat |-> stat, comp |-> BlankCells]

\* Accent-split duplicates with the value on one row and the stats on the
\* other, rows that tie, a row without a type, a pitcher spelled two ways,
\* and a name with a suffix.
CsvRows ==
    { CsvRow("hit", NameJoseAb, <<"ss">>, Num(45), Num(35), Empty, "",
             Cells2("OPS", Num(8), "HR", Empty)),
      CsvRow("hit", NameJoseAbPlain, <<>>, Empty, Empty, Num(1), "TRUE",
             Cells2("OPS", Num(8), "HR", Num(30))),
      CsvRow("hit", NameJoseAbPlain, <<"2B">>, Num(45), Empty, Num(2), "",
             Cells2("OPS", Empty, "HR", Empty)),
      CsvRow("hit", NameJoseAbPlain, <<"3B">>, Num(45), Empty, Num(1), "",
             Cells2("OPS", Empty, "HR", Empty)),
      CsvRow("", NameJoseAbPlain, <<>>, Num(50), Empty, Empty, "",
             Cells2("OPS", Empty, "HR", Empty)),
      CsvRow("pitcher", NameBoSa, <<"SP">>, Num(30), Empty, Empty, "",
             Cells2("ERA", Empty, "K", Empty)),
      CsvRow("pit", NameBoSa, <<"SP">>, Num(20), Num(22), Empty, "",
             Cells2("ERA", Num(3), "K", Num(200))),
      CsvRow("hit", NameAlBoSr, <<"of">>, Num(10), Empty, Empty, "",
             Cells2("OPS", Num(7), "HR", Num(10))) }

CsvFiles == UNION { [1 .. n -> CsvRows] : n \in 0 .. MaxCsvRows }

\* What is typed into the name box: the names of the file, their
\* accent-free forms and their "Last, First[, Suffix]" forms.
LookupNames ==
    { NameJoseAb, NameJoseAbPlain,
      <<"A", "b", ",", " ", "J", "o", "s", "e_acute">>,
      <<"A", "b", ",", " ", "J", "o", "s", "e">>,
      NameBoSa,
      <<"S", "a", ",", " ", "B", "o">>,
      NameAlBoSr,
      <<"B", "o", ",", " ", "A", "l", ",", " ", "S", "r", ".">>,
      <<"a", "l", " ", " ", "b", "o", " ", "s", "r">> }

EmptyIndex == [k \in {} |-> NullRow]

NoLookup == [done |-> FALSE, name |-> <<>>, result |-> None]

-----------------------------------------------------------------------------
(* Inputs of the identity specifications                                   *)

MaxNameLen == 4

NameChars == {"J", "o", "E_acute", "e_acute", "acute", ".", " ", "\t"}

NameStrings == UNION { [1 .. n -> NameChars] : n \in 0 .. MaxNameLen }

NoNamed == [done |-> FALSE, name |-> <<>>, once |-> <<>>, twice |-> <<>>]

\* The type column as records carry it: absent, blank, the recognised
\* spellings and others.
TypeCells ==
    { None, Some(""), Some("hit"), Some("Hitter"), Some("hitter"),
      Some("pit"), Some("PIT"), Some("Pitcher "), Some("pitch"),
      Some("unk"), Some("SP"), Some("hit pit") }

KeyNames == {NameJoAb, NameJose, <<"J", "o", "s", "e">>, <<"h", "i", "t", "|">>, <<>>}

KeyInputs == [type : TypeCells, name : KeyNames]

NoKeyed == [done |-> FALSE, a |-> [type |-> None, name |-> <<>>],
            b |-> [type |-> None, name |-> <<>>],
            keyA |-> NoKey, keyB |-> NoKey]

-----------------------------------------------------------------------------
(* Inputs of the slot specification                                        *)

SlotPosLists ==
    { <<>>, <<"2B">>, <<"ss">>, <<"2B", "/", "SS">>, <<"of">>,
      <<"LF", ",", "CF">>, <<"1B", " ", "3B">>, <<"C">>, <<"SP">>,
      <<"RF", "/", "1B">> }

SlotRows ==
    { PoolRow(t, NameJoAb, pos, Num(10), Undef, BlankCells) :
        t \in {"hit", "pit"}, pos \in SlotPosLists }

\* Planner states by their empty slots.
EmptySlotSets ==
    { {}, SlotSet, {"MI", "OF1"}, {"UT", "P1"}, {"C", "2B", "UT"},
      {"CI", "OF2", "P9"}, {"SS", "MI", "UT", "P3"}, {"LF", "OF1"},
      {"1B", "3B", "CI"}, {"UT"}, {"P5"}, {"2B", "MI", "OF1", "UT"} }

SlotPlanners ==
    { [k \in SlotSet |-> IF k \in E THEN NoKey ELSE Key("hit", <<"x">>)] :
        E \in EmptySlotSets }

SlotRosters ==
    { <<>> } \cup
    { << [RosterEntry(Key("hit", <<"j", "o", " ", "a", "b">>), NameJoAb,
                      Num(2))
            EXCEPT !.type = t, !.pos = pos] >> :
        t \in {"hit", "pit", "Pitcher "},
        pos \in {<<>>, <<"2B">>, <<"of">>, <<"SP">>} }

NoNeed == [done |-> FALSE, emptySlots |-> <<>>, boost |-> 0,
           eligible |-> {}, rosterRows |-> <<>>, rosterEligible |-> <<>>]

-----------------------------------------------------------------------------
(* Idle values: the state of the parts a specification does not exercise  *)

DefaultWeights == [c \in CatSet |-> 10]

PricingIdle ==
    /\ player = NullRow
    /\ target = [plan |-> Num(0), max |-> Num(0)]
    /\ opts = [hasCatStats |-> FALSE,
               caps |-> [strategyCap |-> Undef, deltaCap |-> Undef],
               valueMode |-> "proj"]
    /\ pricing = NoPricing
    /\ baselineOut = None

PoolIdle ==
    /\ pool = <<>>
    /\ built = FALSE

ScorerIdle ==
    /\ roster = <<>>
    /\ targets = <<>>
    /\ livePrices = [k \in LiveKeys |-> Undef]
    /\ planner = [k \in SlotSet |-> NoKey]
    /\ recFilters = [affordableOnly |-> FALSE, maxPrice |-> Num(9999)]
    /\ rec = NoRec

ResolverIdle ==
    /\ masterCsv = <<>>
    /\ auctionOnlyRaw = <<>>
    /\ projOnlyRaw = <<>>
    /\ AUCTION_BY_NAME = EmptyIndex
    /\ AUCTION_BY_NAME_LOOSE = EmptyIndex
    /\ HAS_CAT_STATS = FALSE
    /\ lookup = NoLookup

IdentityIdle ==
    /\ named = NoNamed
    /\ keyed = NoKeyed

SlotIdle == need = NoNeed

PageIdle ==
    /\ added = {}
    /\ minors = <<>>
    /\ settings = NoSettings
    /\ pins = <<>>
    /\ lastOp = NoOp

-----------------------------------------------------------------------------
(* Specification Spec: the Auction Board prices a target                   *)

Init ==
    /\ player \in PricingRows
    /\ target \in [plan : PlanCells, max : MaxCells]
    /\ weights \in PricingWeights
    /\ opts \in [hasCatStats : BOOLEAN, caps : CapsSet,
                 valueMode : {"proj", "market"}]
    /\ pricing = NoPricing
    /\ baselineOut = None
    /\ PoolIdle
    /\ ScorerIdle
    /\ ResolverIdle
    /\ IdentityIdle
    /\ SlotIdle
    /\ PageIdle

\* render(): computeTargetPricing(t, p, weights, strategyOptions())
ComputeTargetPricing ==
    /\ ~pricing.done
    /\ pricing' = computeTargetPricing(target, player, weights, opts)
    /\ UNCHANGED <<player, target, weights, opts, baselineOut>>
    /\ UNCHANGED poolVars
    /\ UNCHANGED scorerVars
    /\ UNCHANGED <<resolverVars, identityVars, slotVars>>
    /\ UNCHANGED pageVars

Next == ComputeTargetPricing

Spec == Init /\ [][Next]_vars

(* Specification SpecBaseline: getBaselineVal over every anchor shape      *)

InitBaseline ==
    /\ player \in BaselineRows
    /\ target = [plan |-> Num(0), max |-> Num(0)]
    /\ weights = DefaultWeights
    /\ opts \in [hasCatStats : {FALSE},
                 caps : {[strategyCap |-> Undef, deltaCap |-> Undef]},
                 valueMode : ModeVals]
    /\ pricing = NoPricing
    /\ baselineOut = None
    /\ PoolIdle
    /\ ScorerIdle
    /\ ResolverIdle
    /\ IdentityIdle
    /\ SlotIdle
    /\ PageIdle

GetBaselineVal ==
    /\ ~baselineOut.some
    /\ baselineOut' = Some(getBaselineVal(player, opts.valueMode))
    /\ UNCHANGED <<player, target, weights, opts, pricing>>
    /\ UNCHANGED poolVars
    /\ UNCHANGED scorerVars
    /\ UNCHANGED <<resolverVars, identityVars, slotVars>>
    /\ UNCHANGED pageVars

NextBaseline == GetBaselineVal

SpecBaseline == InitBaseline /\ [][NextBaseline]_vars

(* Specification SpecPool: initAuctionPool builds the strategy components  *)

InitPool ==
    /\ \E vr \in VarRowSeqs : pool = Fillers \o vr
    /\ built = FALSE
    /\ weights \in {DefaultWeights, WeightsWith("ERA", 0, "K", 20)}
    /\ PricingIdle
    /\ ScorerIdle
    /\ ResolverIdle
    /\ IdentityIdle
    /\ SlotIdle
    /\ PageIdle

\* initAuctionPool: buildStrategyComponents(merged); AUCTION_PLAYERS = merged
BuildStrategyComponents ==
    /\ ~built
    /\ pool' = buildStrategyComponents(pool)
    /\ built' = TRUE
    /\ UNCHANGED weights
    /\ UNCHANGED pricingVars
    /\ UNCHANGED scorerVars
    /\ UNCHANGED <<resolverVars, identityVars, slotVars>>
    /\ UNCHANGED pageVars

NextPool == BuildStrategyComponents

SpecPool == InitPool /\ [][NextPool]_vars

(* Specification SpecScorer: the Recommended Targets panel scores the pool *)

InitScorer ==
    /\ pool \in ScorerPools
    /\ built = TRUE
    /\ roster \in Rosters
    /\ targets \in TargetLists
    /\ livePrices \in LivePriceMaps
    /\ planner \in PlannerStates
    /\ recFilters \in RecFilterStates
    /\ rec = NoRec
    /\ weights \in {DefaultWeights, WeightsWith("OPS", 0, "HR", 12)}
    /\ player = NullRow
    /\ target = [plan |-> Num(0), max |-> Num(0)]
    /\ opts \in [hasCatStats : {FALSE},
                 caps : {[strategyCap |-> Undef, deltaCap |-> Undef]},
                 valueMode : {"proj", "market"}]
    /\ pricing = NoPricing
    /\ baselineOut = None
    /\ ResolverIdle
    /\ IdentityIdle
    /\ SlotIdle
    /\ PageIdle

Store ==
    [weights |-> weights, roster |-> roster, targets |-> targets,
     planner |-> planner, livePrices |-> livePrices]

\* mountRecommendedTargets: scorePlayers(players, mode, {affordableOnly,
\* maxPrice}); getRoster() inside it may write the migrated roster back.
MountRecommendedTargets ==
    /\ ~rec.done
    /\ LET out == scorePlayers(pool, ModeLower(opts.valueMode), recFilters,
                               Store)
       IN  /\ rec' = Mounted(out)
           /\ roster' = out.stored
    /\ UNCHANGED <<targets, livePrices, planner, recFilters, weights>>
    /\ UNCHANGED pricingVars
    /\ UNCHANGED poolVars
    /\ UNCHANGED <<resolverVars, identityVars, slotVars>>
    /\ UNCHANGED pageVars

NextScorer == MountRecommendedTargets

SpecScorer == InitScorer /\ [][NextScorer]_vars

(* Specification SpecQuickAdd: scored candidates are added to the roster   *)
(* from the panel, which is then rendered again                             *)

InitQuickAdd ==
    /\ pool \in QuickAddPools
    /\ built = TRUE
    /\ roster \in Rosters
    /\ targets = <<>>
    /\ livePrices = [k \in LiveKeys |-> Undef]
    /\ planner = [k \in SlotSet |-> NoKey]
    /\ recFilters = [affordableOnly |-> FALSE, maxPrice |-> Num(9999)]
    /\ rec = NoRec
    /\ weights = DefaultWeights
    /\ PricingIdle
    /\ ResolverIdle
    /\ IdentityIdle
    /\ SlotIdle
    /\ PageIdle

\* The scoring that follows addToRosterFromCsv of the pool row p:
\* window.hagRefreshAuction is render, which mounts the panel again.
Rescored(p) ==
    scorePlayers(pool, ModeLower(opts.valueMode), recFilters,
                 [Store EXCEPT !.roster =
                     addToRosterFromCsv(roster, QuickAddCsv(p))])

\* The click handler of the panel for data-rec-action="add-roster" on the
\* scored record r.
AddRosterAction(r) ==
    /\ roster' = Rescored(pool[r.player]).stored
    /\ rec' = Mounted(Rescored(pool[r.player]))
    /\ added' = added \cup {r.key}

QuickAddRoster ==
    /\ rec.done
    /\ \E i \in DOMAIN rec.scored : AddRosterAction(rec.scored[i])
    /\ UNCHANGED <<targets, livePrices, planner, recFilters, weights>>
    /\ UNCHANGED pricingVars
    /\ UNCHANGED poolVars
    /\ UNCHANGED <<resolverVars, identityVars, slotVars>>
    /\ UNCHANGED <<minors, settings, pins, lastOp>>

NextQuickAdd == MountRecommendedTargets \/ QuickAddRoster

SpecQuickAdd == InitQuickAdd /\ [][NextQuickAdd]_vars

(* Specification SpecPlanner: the lineup planner of the roster page        *)

InitPlanner ==
    /\ roster = PlannerRoster
    /\ planner = [k \in SlotSet |-> NoKey]
    /\ minors = <<>>
    /\ targets = <<>>
    /\ livePrices = [k \in LiveKeys |-> Undef]
    /\ recFilters = [affordableOnly |-> FALSE, maxPrice |-> Num(9999)]
    /\ rec = NoRec
    /\ weights = DefaultWeights
    /\ added = {}
    /\ settings = NoSettings
    /\ pins = <<>>
    /\ lastOp = NoOp
    /\ PricingIdle
    /\ PoolIdle
    /\ ResolverIdle
    /\ IdentityIdle
    /\ SlotIdle

PlannerState == [slots |-> planner, minors |-> minors]

\* new Set(roster.map((p) => p.id)) of the roster the page rendered
PlannerRosterIds == {roster[i].id : i \in DOMAIN roster}

\* Whether the planner holds the player somewhere else than in slotKey.
HeldElsewhere(slotKey, id) ==
    \/ id \in Range(minors)
    \/ \E k \in SlotSet \ {slotKey} : planner[k] = id

\* What a planner handler leaves in localStorage: its own save, then the
\* save of renderPlanner(roster).
PlannerSaved(next, op, slotKey, id) ==
    /\ planner' = renderPlanner(next, PlannerRosterIds).slots
    /\ minors' = renderPlanner(next, PlannerRosterIds).minors
    /\ lastOp' = [op |-> op, id |-> id,
                  held |-> id # NoKey /\ HeldElsewhere(slotKey, id)]
    /\ UNCHANGED <<roster, targets, livePrices, recFilters, rec, weights,
                   added, settings, pins>>
    /\ UNCHANGED pricingVars
    /\ UNCHANGED poolVars
    /\ UNCHANGED <<resolverVars, identityVars, slotVars>>

\* The change handler of a slot dropdown: setSlot(s.key, sel.value)
SetSlot ==
    \E slotKey \in SlotSet, id \in PlannerArgs \cup {NoKey} :
        PlannerSaved(setSlot(PlannerState, slotKey, id), "setSlot",
                     slotKey, id)

\* The Minors button of a bench player and the add button of the minors
\* list: moveToMinors(id)
MoveToMinors ==
    \E id \in PlannerArgs :
        PlannerSaved(moveToMinors(PlannerState, id), "moveToMinors", "", id)

\* The Remove button of a minors player: removeFromMinors(p.id)
RemoveFromMinors ==
    \E id \in PlannerArgs :
        PlannerSaved(removeFromMinors(PlannerState, id), "removeFromMinors",
                     "", id)

NextPlanner == SetSlot \/ MoveToMinors \/ RemoveFromMinors

SpecPlanner == InitPlanner /\ [][NextPlanner]_vars

(* Specification SpecRoster: the roster page adds, edits and removes       *)
(* roster players                                                           *)

InitRoster ==
    /\ roster \in Rosters
    /\ settings \in SettingsStates
    /\ lastOp = NoOp
    /\ planner = [k \in SlotSet |-> NoKey]
    /\ minors = <<>>
    /\ targets = <<>>
    /\ livePrices = [k \in LiveKeys |-> Undef]
    /\ recFilters = [affordableOnly |-> FALSE, maxPrice |-> Num(9999)]
    /\ rec = NoRec
    /\ weights = DefaultWeights
    /\ added = {}
    /\ pins = <<>>
    /\ PricingIdle
    /\ PoolIdle
    /\ ResolverIdle
    /\ IdentityIdle
    /\ SlotIdle

\* The entry of what getRoster() returns whose id is id, NoKey-ed when
\* there is none.
EntryOf(list, id) ==
    IF IndexOfId(list, id) = 0 THEN [id |-> NoKey]
    ELSE list[IndexOfId(list, id)]

\* The callbacks refreshUI hands to the tables: after the roster call (next
\* is what it left in localStorage) recalcBudgetRemaining() and refreshUI(),
\* which reads the roster again and renders the planner.
RosterPageSaved(next, op, id) ==
    /\ lastOp.n < MaxRosterOps
    /\ roster' = getRoster(next).stored
    /\ settings' = recalcBudgetRemaining(settings, getRoster(next).value)
    /\ planner' = renderPlanner(PlannerState,
                      {getRoster(next).value[i].id :
                          i \in DOMAIN getRoster(next).value}).slots
    /\ minors' = renderPlanner(PlannerState,
                      {getRoster(next).value[i].id :
                          i \in DOMAIN getRoster(next).value}).minors
    /\ lastOp' = [op |-> op, id |-> id, n |-> lastOp.n + 1,
                  prev |-> EntryOf(getRoster(roster).value, id),
                  size |-> Len(getRoster(roster).value)]
    /\ UNCHANGED <<targets, livePrices, recFilters, rec, weights, added,
                   pins>>
    /\ UNCHANGED pricingVars
    /\ UNCHANGED poolVars
    /\ UNCHANGED <<resolverVars, identityVars, slotVars>>

\* The Add button of a search result: addToRosterFromCsv(player)
AddToRoster ==
    \E csv \in CsvPlayers :
        RosterPageSaved(addToRosterFromCsv(roster, csv), "add",
                        getPlayerKey(<<>>, CsvType(csv), Trim(csv.Name)))

\* A change of a contract field of a roster row: updateRosterPlayer(id,
\* patch)
UpdateRosterPlayer ==
    \E id \in RosterArgs, patch \in Patches :
        RosterPageSaved(updateRosterPlayer(roster, id, patch), "update", id)

\* The Remove button of a roster row: removeRosterPlayer(id)
RemoveRosterPlayer ==
    \E id \in RosterArgs :
        RosterPageSaved(removeRosterPlayer(roster, id), "remove", id)

NextRoster == AddToRoster \/ UpdateRosterPlayer \/ RemoveRosterPlayer

SpecRoster == InitRoster /\ [][NextRoster]_vars

(* Specification SpecCompare: the compare panel pins and unpins players    *)

InitCompare ==
    /\ pins = <<>>
    /\ lastOp = NoOp
    /\ added = {}
    /\ minors = <<>>
    /\ settings = NoSettings
    /\ weights = DefaultWeights
    /\ PricingIdle
    /\ PoolIdle
    /\ ScorerIdle
    /\ ResolverIdle
    /\ IdentityIdle
    /\ SlotIdle

\* What a compare handler leaves in localStorage; key is the key it was
\* about, NoKey when it found none.
CompareSaved(next, op, key) ==
    /\ pins' = next
    /\ lastOp' = [op |-> op, key |-> key, before |-> pins]
    /\ UNCHANGED <<added, minors, settings, weights>>
    /\ UNCHANGED pricingVars
    /\ UNCHANGED poolVars
    /\ UNCHANGED scorerVars
    /\ UNCHANGED <<resolverVars, identityVars, slotVars>>

\* The Add button with a typed name: addByName(name)
AddByName ==
    \E name \in CompareQueries :
        CompareSaved(addByName(pins, NormList(ComparePlayers), name), "add",
                     ResolveName(NormList(ComparePlayers), name))

\* The Add button with a picked suggestion: addByKey(pickedKey)
AddByKey ==
    \E key \in CompareKeys \cup {Key("hit", <<"z">>)} :
        CompareSaved(addByKey(pins, CompareKeys, key), "add",
                     IF key \in CompareKeys THEN key ELSE NoKey)

\* A remove button of the panel: removeKey(k)
RemoveKey ==
    \E key \in CompareKeys : CompareSaved(removeKey(pins, key), "remove", key)

\* The Clear button: clearAll()
ClearAll == CompareSaved(<<>>, "clear", NoKey)

NextCompare == AddByName \/ AddByKey \/ RemoveKey \/ ClearAll

SpecCompare == InitCompare /\ [][NextCompare]_vars

(* Specification SpecResolve: initAuctionPool builds the pool from          *)
(* master.csv, then a name is looked up                                     *)

InitResolve ==
    /\ masterCsv \in CsvFiles
    /\ auctionOnlyRaw = <<>>
    /\ projOnlyRaw = <<>>
    /\ AUCTION_BY_NAME = EmptyIndex
    /\ AUCTION_BY_NAME_LOOSE = EmptyIndex
    /\ HAS_CAT_STATS = FALSE
    /\ lookup = NoLookup
    /\ PoolIdle
    /\ weights = DefaultWeights
    /\ PricingIdle
    /\ ScorerIdle
    /\ IdentityIdle
    /\ SlotIdle
    /\ PageIdle

\* initAuctionPool(): both loaders read master.csv, the rows are merged,
\* the strategy components and the name index are built.
InitAuctionPool ==
    /\ ~built
    /\ auctionOnlyRaw' = loadAuctionPlayers(masterCsv)
    /\ projOnlyRaw' = loadPlayers(masterCsv)
    /\ pool' = initAuctionPool(auctionOnlyRaw', projOnlyRaw')
    /\ built' = TRUE
    /\ AUCTION_BY_NAME' = buildStrictIndex(pool')
    /\ AUCTION_BY_NAME_LOOSE' = buildLooseIndex(pool')
    /\ HAS_CAT_STATS' = hasCatStatsOf(pool')
    /\ UNCHANGED <<masterCsv, lookup, weights>>
    /\ UNCHANGED pricingVars
    /\ UNCHANGED scorerVars
    /\ UNCHANGED <<identityVars, slotVars>>
    /\ UNCHANGED pageVars

\* The name box of the Auction Board: lookupPlayerByName(name)
LookupPlayerByName ==
    /\ built
    /\ ~lookup.done
    /\ \E name \in LookupNames :
          lookup' = [done |-> TRUE, name |-> name,
                     result |-> lookupPlayerByName(name, AUCTION_BY_NAME,
                                                   AUCTION_BY_NAME_LOOSE)]
    /\ UNCHANGED <<masterCsv, auctionOnlyRaw, projOnlyRaw, AUCTION_BY_NAME,
                   AUCTION_BY_NAME_LOOSE, HAS_CAT_STATS, weights>>
    /\ UNCHANGED pricingVars
    /\ UNCHANGED poolVars
    /\ UNCHANGED scorerVars
    /\ UNCHANGED <<identityVars, slotVars>>
    /\ UNCHANGED pageVars

NextResolve == InitAuctionPool \/ LookupPlayerByName

SpecResolve == InitResolve /\ [][NextResolve]_vars

(* Specification SpecName: normalizeName over short strings                 *)

InitName ==
    /\ named \in [done : {FALSE}, name : NameStrings, once : {<<>>},
                  twice : {<<>>}]
    /\ keyed = NoKeyed
    /\ weights = DefaultWeights
    /\ PricingIdle
    /\ PoolIdle
    /\ ScorerIdle
    /\ ResolverIdle
    /\ SlotIdle
    /\ PageIdle

NormalizeName ==
    /\ ~named.done
    /\ named' = [named EXCEPT
                    !.done = TRUE,
                    !.once = normalizeName(named.name),
                    !.twice = normalizeName(normalizeName(named.name))]
    /\ UNCHANGED <<keyed, weights>>
    /\ UNCHANGED pricingVars
    /\ UNCHANGED poolVars
    /\ UNCHANGED scorerVars
    /\ UNCHANGED <<resolverVars, slotVars>>
    /\ UNCHANGED pageVars

NextName == NormalizeName

SpecName == InitName /\ [][NextName]_vars

(* Specification SpecKey: getPlayerKey of two records without an id         *)

InitKey ==
    /\ keyed \in [done : {FALSE}, a : KeyInputs, b : KeyInputs,
                  keyA : {NoKey}, keyB : {NoKey}]
    /\ named = NoNamed
    /\ weights = DefaultWeights
    /\ PricingIdle
    /\ PoolIdle
    /\ ScorerIdle
    /\ ResolverIdle
    /\ SlotIdle
    /\ PageIdle

\* input.type ?? input.Type ?? "unk"
TypeOrUnk(t) == IF t.some THEN t.v ELSE "unk"

GetPlayerKey ==
    /\ ~keyed.done
    /\ keyed' = [keyed EXCEPT
                    !.done = TRUE,
                    !.keyA = getPlayerKey(<<>>, TypeOrUnk(keyed.a.type),
                                          keyed.a.name),
                    !.keyB = getPlayerKey(<<>>, TypeOrUnk(keyed.b.type),
                                          keyed.b.name)]
    /\ UNCHANGED <<named, weights>>
    /\ UNCHANGED pricingVars
    /\ UNCHANGED poolVars
    /\ UNCHANGED scorerVars
    /\ UNCHANGED <<resolverVars, slotVars>>
    /\ UNCHANGED pageVars

NextKey == GetPlayerKey

SpecKey == InitKey /\ [][NextKey]_vars

(* Specification SpecSlots: eligibility and need boost of one player        *)

InitSlots ==
    /\ player \in SlotRows
    /\ planner \in SlotPlanners
    /\ roster \in SlotRosters
    /\ need = NoNeed
    /\ target = [plan |-> Num(0), max |-> Num(0)]
    /\ opts = [hasCatStats |-> FALSE,
               caps |-> [strategyCap |-> Undef, deltaCap |-> Undef],
               valueMode |-> "proj"]
    /\ pricing = NoPricing
    /\ baselineOut = None
    /\ weights = DefaultWeights
    /\ targets = <<>>
    /\ livePrices = [k \in LiveKeys |-> Undef]
    /\ recFilters = [affordableOnly |-> FALSE, maxPrice |-> Num(9999)]
    /\ rec = NoRec
    /\ PoolIdle
    /\ ResolverIdle
    /\ IdentityIdle
    /\ PageIdle

\* needBoostForPlayer(p, getEmptySlotKeys()) of the scorer, the slots
\* isEligibleForSlot accepts for p, and the slots the lineup planner of
\* roster-page.js offers every player of getRoster().
NeedBoostForPlayer ==
    /\ ~need.done
    /\ need' = [done |-> TRUE,
                emptySlots |-> getEmptySlotKeys(planner),
                boost |-> needBoostForPlayer(player,
                                             getEmptySlotKeys(planner)),
                eligible |-> {k \in SlotSet : isEligibleForSlot(player, k)},
                rosterRows |-> getRoster(roster).value,
                rosterEligible |->
                    [i \in DOMAIN getRoster(roster).value |->
                        {k \in SlotSet :
                            rpIsEligibleForSlot(getRoster(roster).value[i],
                                                k)}]]
    /\ roster' = getRoster(roster).stored
    /\ UNCHANGED <<player, planner, target, opts, pricing, baselineOut,
                   weights, targets, livePrices, recFilters, rec>>
    /\ UNCHANGED poolVars
    /\ UNCHANGED <<resolverVars, identityVars>>
    /\ UNCHANGED pageVars

NextSlots == NeedBoostForPlayer

SpecSlots == InitSlots /\ [][NextSlots]_vars

-----------------------------------------------------------------------------
(* Claims about the delta model (specification Spec)                       *)

\* The inputs of the last pricing, as the code reads them.
BaselineCsv == getBaselineVal(player, opts.valueMode)
PlanOf == num(target.plan, Some(0)).v
StrategyCapOf == R(num(opts.caps.strategyCap, Some(DefaultStrategyCap)).v)
DeltaCapOf == R(num(opts.caps.deltaCap, Some(DefaultDeltaCap)).v)

\* C1: a plan-only, anchor-less player (baseline from the CSV 0, plan > 0)
\* is priced with plan as the baseline and a zero delta: totalDelta = 0 and
\* adjustedPrice = plan, for every weight set and hasCatStats value.
C1_PlanOnlyZeroDelta ==
    (pricing.done /\ BaselineCsv = 0 /\ PlanOf > 0)
        => (pricing.totalDelta = R(0) /\ pricing.adjRaw = R(PlanOf))

\* C2 as stated: totalDelta is never outside [-deltaCap, +deltaCap], for
\* any finite caps.
C2_TotalDeltaWithinCap ==
    pricing.done
        => (RLe(RNeg(DeltaCapOf), pricing.totalDelta)
            /\ RLe(pricing.totalDelta, DeltaCapOf))

\* C2 amended: for a deltaCap >= 0, totalDelta is never outside
\* [-deltaCap, +deltaCap]; for a negative deltaCap the interval is empty and
\* totalDelta is -deltaCap.
C2_TotalDeltaWithinNonNegCap ==
    pricing.done
        => /\ RLe(R(0), DeltaCapOf)
               => (RLe(RNeg(DeltaCapOf), pricing.totalDelta)
                   /\ RLe(pricing.totalDelta, DeltaCapOf))
           /\ RLt(DeltaCapOf, R(0))
               => pricing.totalDelta = RNeg(DeltaCapOf)

\* C2 witness: the sum of the two deltas exceeds a non-negative deltaCap,
\* and the priced total delta is the cap.
C2_Witness ==
    /\ pricing.done
    /\ RLe(R(0), DeltaCapOf)
    /\ RLt(DeltaCapOf, RAdd(pricing.marketDelta, pricing.strategyDelta))
    /\ pricing.totalDelta = DeltaCapOf

\* C3: with a positive baseline, marketDelta = baseline - plan,
\* strategyDelta = clamp(weightedValue - baseline, -strategyCap, strategyCap),
\* totalDelta = clamp(marketDelta + strategyDelta, -deltaCap, deltaCap),
\* adjustedPrice = baseline + totalDelta; baseline 30, plan 25, weighted
\* value 33 and caps 6 and 15 give 38.
C3_DeltaModel ==
    (pricing.done /\ BaselineCsv > 0)
        => LET b == R(BaselineCsv)
               md == RSub(b, R(PlanOf))
               sd == clamp(RSub(pricing.weightedVal, b),
                           RNeg(StrategyCapOf), StrategyCapOf)
               td == clamp(RAdd(md, sd), RNeg(DeltaCapOf), DeltaCapOf)
           IN  /\ pricing.baseVal = b
               /\ pricing.marketDelta = md
               /\ pricing.strategyDelta = sd
               /\ pricing.totalDelta = td
               /\ pricing.adjRaw = RAdd(b, td)
               /\ (/\ BaselineCsv = 30 /\ PlanOf = 25
                   /\ pricing.weightedVal = R(33)
                   /\ StrategyCapOf = R(6) /\ DeltaCapOf = R(15))
                      => (/\ md = R(5) /\ sd = R(3) /\ td = R(8)
                          /\ pricing.adjRaw = R(38))

\* C3 witness: the worked example has been priced.
C3_Witness ==
    /\ pricing.done
    /\ BaselineCsv = 30 /\ PlanOf = 25
    /\ pricing.weightedVal = R(33)
    /\ StrategyCapOf = R(6) /\ DeltaCapOf = R(15)
    /\ pricing.adjRaw = R(38)

\* Sum of f over a finite set of categories.
RECURSIVE SumCats(_, _)
SumCats(S, f) ==
    IF S = {} THEN 0
    ELSE LET c == CHOOSE x \in S : TRUE IN f[c] + SumCats(S \ {c}, f)

\* The categories of the player's role that are present on the record.
PresentCats(p) == {c \in Range(CatsOf(p)) : getCatStat(p, c).some}

CatValue(p) == [c \in CatSet |-> getCatStat(p, c).v]
CatWeighted(p, w) == [c \in CatSet |-> getCatStat(p, c).v * w[c]]

\* weightedValue as the adjustment defines it over the categories S:
\* the baseline when nothing contributed or rawSum = 0, else
\* max(0, baseline * weightedSum / rawSum).  Weights are tenths.
WeightedValueOver(S, p, w, baseline) ==
    LET rawSum == SumCats(S, CatValue(p))
        weightedSum == SumCats(S, CatWeighted(p, w))
    IN  IF S = {} \/ rawSum = 0 THEN R(baseline)
        ELSE RMax(R(0),
                  IF rawSum > 0
                  THEN Rat(baseline * weightedSum, 10 * rawSum)
                  ELSE Rat(-(baseline * weightedSum), -(10 * rawSum)))

\* C4 as stated: rawSum and weightedSum are accumulated only over the
\* categories that are present and have a nonzero weight.
C4_ZeroWeightNotInRawSum ==
    (pricing.done /\ opts.hasCatStats /\ ~player.nil)
        => pricing.weightedVal =
             WeightedValueOver({c \in PresentCats(player) : weights[c] # 0},
                               player, weights, BaselineCsv)

\* C4 amended: rawSum is accumulated over every category present on the
\* record, whatever its weight (a category of weight zero adds its value to
\* rawSum and nothing to weightedSum); weightedValue is
\* max(0, baseline * weightedSum / rawSum) over the present categories.
C4_RawSumOverPresent ==
    (pricing.done /\ opts.hasCatStats /\ ~player.nil)
        => pricing.weightedVal =
             WeightedValueOver(PresentCats(player), player, weights,
                               BaselineCsv)

\* C4 witness: a priced player with a present, nonzero category of weight
\* zero beside a weighted one, and a positive baseline.
C4_Witness ==
    /\ pricing.done /\ opts.hasCatStats /\ ~player.nil
    /\ BaselineCsv > 0
    /\ \E c \in PresentCats(player) :
          weights[c] = 0 /\ getCatStat(player, c).v # 0
    /\ \E c \in PresentCats(player) :
          weights[c] # 0 /\ getCatStat(player, c).v # 0

\* C6: the pricing does not depend on the target's hard max: a target that
\* differs only in max yields the same adjustedPrice, totalDelta and
\* strategyDelta.
C6_HardMaxIndependent ==
    pricing.done
        => \A m \in MaxCells \cup {Undef, Num(1)} :
              LET other == computeTargetPricing(
                               [target EXCEPT !.max = m],
                               player, weights, opts)
              IN  /\ other.adjRaw = pricing.adjRaw
                  /\ other.totalDelta = pricing.totalDelta
                  /\ other.strategyDelta = pricing.strategyDelta

\* C6 witness: a priced target whose adjusted price is above its hard max.
C6_Witness ==
    /\ pricing.done
    /\ target.max.t = "num" /\ target.max.n > 0
    /\ RLt(R(target.max.n), pricing.adjRaw)

(* Claim about baseline selection (specification SpecBaseline)             *)

Present(c) == c.t = "num"

\* The first present anchor of the projection mode, floored at 0.
ProjectionAnchor(p) ==
    IF p.nil THEN 0
    ELSE IF Present(p.auction_value_26) THEN Max(0, p.auction_value_26.n)
    ELSE IF Present(p.auction_price_25_imputed)
         THEN Max(0, p.auction_price_25_imputed.n)
    ELSE IF Present(p.auction_price_25) THEN Max(0, p.auction_price_25.n)
    ELSE 0

\* C7: mode market returns the market anchor if it is positive and the
\* projection-mode result otherwise; mode projection returns the projection
\* anchor if present, else the prior-year anchor, else 0 (an anchor below 0
\* counts as 0); the result is never negative, for present, absent,
\* negative and non-numeric anchors alike.
C7_BaselineSelection ==
    baselineOut.some
        => /\ baselineOut.v >= 0
           /\ IF /\ opts.valueMode \in {"market", "MARKET"}
                 /\ ~player.nil
                 /\ Present(player.market_estimate)
                 /\ player.market_estimate.n > 0
              THEN baselineOut.v = player.market_estimate.n
              ELSE baselineOut.v = ProjectionAnchor(player)

\* C7 witness: mode market with a market anchor that is not positive, so
\* that the projection anchor was returned.
C7_Witness ==
    /\ baselineOut.some
    /\ opts.valueMode = "market"
    /\ ~player.nil
    /\ Present(player.market_estimate) /\ player.market_estimate.n <= 0
    /\ Present(player.auction_value_26) /\ player.auction_value_26.n = 30
    /\ baselineOut.v = 30

(* Claim about blank and malformed stat cells (specification SpecPool)     *)

\* A stat cell that is empty, missing or not a number.
AbsentCell(c) == c.t # "num"

Without(cats, cat) == SelectSeq(cats, LAMBDA c : c # cat)

\* C5: a stat cell that is empty, missing or non-numeric is treated as
\* absent, not as zero: it adds nothing to rawSum or weightedSum of the
\* weighted adjustment, also after the percentile strategy components of
\* the pool have been computed.
C5_AbsentCellContributesNothing ==
    \A i \in DOMAIN pool :
        \A cat \in Range(CatsOf(pool[i])) :
            AbsentCell(pool[i].stat[cat])
                => LET all == WeightedLoop(pool[i], weights,
                                           CatsOf(pool[i]), 1, LoopStart)
                       rest == WeightedLoop(pool[i], weights,
                                   Without(CatsOf(pool[i]), cat), 1, LoopStart)
                   IN  /\ all.baseScore = rest.baseScore
                       /\ all.weightedScore = rest.weightedScore

(* Claims about the Recommended Targets scorer (specification SpecScorer)  *)

ScoredSet == {rec.scored[i] : i \in DOMAIN rec.scored}
SurvivorMin == CHOOSE m \in {r.fitRaw : r \in ScoredSet} :
                   \A r \in ScoredSet : m <= r.fitRaw
SurvivorMax == CHOOSE m \in {r.fitRaw : r \in ScoredSet} :
                   \A r \in ScoredSet : m >= r.fitRaw

\* C8: fitNorm of each surviving candidate is 100 * (fitRaw - min) /
\* (max - min) with min and max taken over the surviving candidates only,
\* so when max # min the largest fitRaw has fitNorm 100 and the smallest 0.
C8_FitNormOverSurvivors ==
    (rec.done /\ ScoredSet # {} /\ SurvivorMax # SurvivorMin)
        => \A r \in ScoredSet :
              /\ r.fitVal = Rat(100 * (r.fitRaw - SurvivorMin),
                                SurvivorMax - SurvivorMin)
              /\ (r.fitRaw = SurvivorMax => r.fitVal = R(100))
              /\ (r.fitRaw = SurvivorMin => r.fitVal = R(0))

\* C9: when all surviving candidates have the same fitRaw (a single
\* survivor included), every surviving candidate's fitNorm is exactly 0.
C9_EqualFitRawGivesZero ==
    (rec.done /\ \A r, q \in ScoredSet : r.fitRaw = q.fitRaw)
        => \A r \in ScoredSet : r.fitVal = R(0)

\* C10: the scored output never contains a candidate whose key equals the
\* id of a roster entry or the player_key of an auction target.
C10_NoRosteredOrTargeted ==
    rec.done
        => \A r \in ScoredSet :
              /\ \A i \in DOMAIN roster : r.key # roster[i].id
              /\ \A i \in DOMAIN targets : r.key # targets[i].player_key

\* A pool with a rostered row, a targeted row and a scored row.
C10_Witness ==
    /\ rec.done
    /\ ScoredSet # {}
    /\ \E i \in DOMAIN pool : \E j \in DOMAIN roster :
          pool[i].player_key = roster[j].id
    /\ \E i \in DOMAIN pool : \E j \in DOMAIN targets :
          pool[i].player_key = targets[j].player_key

-----------------------------------------------------------------------------
(* Claims about the identity resolver (specification SpecResolve)          *)

\* The baseline anchor value of a row.
AnchorOf(p) == NumberOrZero(p.auction_value_26)

MaxAnchor(rows, S) ==
    CHOOSE m \in {AnchorOf(rows[j]) : j \in S} :
        \A j \in S : AnchorOf(rows[j]) <= m

\* The rows as the two loaders key them, before either dedupe.
AuctionKeyed == [i \in DOMAIN masterCsv |-> loadAuctionRow(masterCsv[i])]
ProjectionKeyed == [i \in DOMAIN masterCsv |-> loadPlayersRow(masterCsv[i])]

\* The named rows of the auction loop of initAuctionPool, joined with their
\* projection row, as they reach the duplicate merge.
MergeInput ==
    SelectSeq(
        [i \in DOMAIN auctionOnlyRaw |->
            Joined(NormalizeRows(auctionOnlyRaw)[i],
                   NormalizeRows(projOnlyRaw),
                   ProjIndex(NormalizeRows(projOnlyRaw),
                             MergeKey(NormalizeRows(auctionOnlyRaw)[i])))],
        LAMBDA a : a.Name # <<>>)

\* The rows of the pool that come out of the auction loop.
MergeOutput == SubSeq(pool, 1, Cardinality(MergedKeys(MergeInput)))

\* Of the rows of rowsIn that share a key, rowsOut holds exactly one, and it
\* has their greatest anchor.
HigherAnchorKept(rowsIn, rowsOut, KeyOf(_)) ==
    \A i \in DOMAIN rowsIn :
        LET same == {j \in DOMAIN rowsIn : KeyOf(rowsIn[j]) = KeyOf(rowsIn[i])}
            kept == {j \in DOMAIN rowsOut :
                        KeyOf(rowsOut[j]) = KeyOf(rowsIn[i])}
        IN  /\ Cardinality(kept) = 1
            /\ \A j \in kept : AnchorOf(rowsOut[j]) = MaxAnchor(rowsIn, same)

PlayerKeyOf(p) == p.player_key

AuctionDedupeKeepsHigherAnchor ==
    built => HigherAnchorKept(AuctionKeyed, auctionOnlyRaw, PlayerKeyOf)

MergeKeepsHigherAnchor ==
    built => HigherAnchorKept(MergeInput, MergeOutput, MergeKey)

\* C11: every dedupe (the auction loader, the projection loader, the
\* duplicate merge of initAuctionPool) leaves exactly one record for a key,
\* and it is the row with the higher baseline anchor value.
C11_HigherAnchorKept ==
    built =>
        /\ HigherAnchorKept(AuctionKeyed, auctionOnlyRaw, PlayerKeyOf)
        /\ HigherAnchorKept(ProjectionKeyed, projOnlyRaw, PlayerKeyOf)
        /\ HigherAnchorKept(MergeInput, MergeOutput, MergeKey)

\* The file with its rows in the order f.
Reordered(f) == [i \in DOMAIN masterCsv |-> masterCsv[f[i]]]

PoolOf(csv) == initAuctionPool(loadAuctionPlayers(csv), loadPlayers(csv))

\* C12: every order of the rows of the file gives the same records.
C12_OrderIndependent ==
    built =>
        \A f \in Permutations(DOMAIN masterCsv) :
            /\ Range(loadAuctionPlayers(Reordered(f))) = Range(auctionOnlyRaw)
            /\ Range(loadPlayers(Reordered(f))) = Range(projOnlyRaw)
            /\ Range(PoolOf(Reordered(f))) = Range(pool)

\* The columns a merge can carry over.
CellFields ==
    {"auction_value_26", "market_estimate", "auction_price_25_imputed",
     "auction_price_25", "tier", "flags", "display_role", "PA"}

RowFields == CellFields \cup CatSet \cup {"POS"}

FieldValue(p, f) ==
    IF f = "POS" THEN p.POS ELSE IF f \in CellFields THEN p[f] ELSE p.stat[f]

Populated(p, f) ==
    IF f = "POS" THEN p.POS # <<>> ELSE ~BlankCell(FieldValue(p, f))

\* r is the merge of the rows S of rowsIn with winner w: every populated
\* field of w is unchanged, every other field that a loser has populated
\* is populated with a loser's value.
MergedFrom(r, rowsIn, S, w) ==
    \A f \in RowFields :
        IF Populated(rowsIn[w], f)
        THEN FieldValue(r, f) = FieldValue(rowsIn[w], f)
        ELSE (\E l \in S : Populated(rowsIn[l], f)) =>
                 \E l \in S : /\ Populated(rowsIn[l], f)
                              /\ FieldValue(r, f) = FieldValue(rowsIn[l], f)

Backfilled(rowsIn, rowsOut, KeyOf(_)) ==
    \A k \in DOMAIN rowsOut :
        LET S == {j \in DOMAIN rowsIn : KeyOf(rowsIn[j]) = KeyOf(rowsOut[k])}
        IN  \E w \in S : MergedFrom(rowsOut[k], rowsIn, S, w)

\* C13: a merged record has every field its winner lacks and a loser has,
\* and every populated field of the winner unchanged.
C13_LosersBackfilled ==
    built =>
        /\ Backfilled(AuctionKeyed, auctionOnlyRaw, PlayerKeyOf)
        /\ Backfilled(ProjectionKeyed, projOnlyRaw, PlayerKeyOf)
        /\ Backfilled(MergeInput, MergeOutput, MergeKey)

\* C14: no two records of the built pool share a player_key.
C14_OneRecordPerKey ==
    built =>
        \A i, j \in DOMAIN pool :
            i # j => pool[i].player_key # pool[j].player_key

\* The forms of a name "First Last [Suffix]".
StripMarks(s) == SelectSeq(NFD(s), LAMBDA c : c \notin CombiningMarks)

DirectForm(n) ==
    n.first \o <<" ">> \o n.last
    \o (IF n.suffix = <<>> THEN <<>> ELSE <<" ">> \o n.suffix)

InvertedForm(n) ==
    n.last \o <<",", " ">> \o n.first
    \o (IF n.suffix = <<>> THEN <<>> ELSE <<",", " ">> \o n.suffix)

NameForms(n) ==
    {DirectForm(n), InvertedForm(n),
     StripMarks(DirectForm(n)), StripMarks(InvertedForm(n))}

KnownNames ==
    { [first |-> <<"J", "o", "s", "e_acute">>, last |-> <<"A", "b">>,
       suffix |-> <<>>],
      [first |-> <<"J", "o", "s", "e">>, last |-> <<"A", "b">>,
       suffix |-> <<>>],
      [first |-> <<"B", "o">>, last |-> <<"S", "a">>, suffix |-> <<>>],
      [first |-> <<"A", "l">>, last |-> <<"B", "o">>,
       suffix |-> <<"S", "r", ".">>] }

PoolKeysNamed(name) ==
    {pool[i].player_key : i \in {j \in DOMAIN pool : pool[j].Name = name}}

\* C15: every form of the name of a pool player resolves to a record with
\* that player's key.
C15_NameFormsResolve ==
    lookup.done =>
        \A n \in KnownNames :
            (lookup.name \in NameForms(n) /\ PoolKeysNamed(DirectForm(n)) # {})
            => /\ lookup.result.some
               /\ lookup.result.v.player_key \in PoolKeysNamed(DirectForm(n))

-----------------------------------------------------------------------------
(* Claim about the role of a key (specification SpecKey)                   *)

\* The role component of a key string: the characters before the first "|".
RECURSIVE RoleOf(_)
RoleOf(str) ==
    IF str = <<>> \/ Head(str) = "|" THEN <<>>
    ELSE <<Head(str)>> \o RoleOf(Tail(str))

RoleHit == <<"h", "i", "t">>
RolePit == <<"p", "i", "t">>
RoleUnk == <<"u", "n", "k">>

\* Type cells that name no role.
NoRoleTypes == {None, Some(""), Some("unk"), Some("SP"), Some("hit pit")}

KeyStringA == KeyString(keyed.keyA)
KeyStringB == KeyString(keyed.keyB)

\* C16: without an explicit id the role of a key is hit, pit or unk, unk for
\* an absent or unrecognised type; records with one name and different
\* roles get different keys, and an unk key never equals a hit or pit key.
C16_RoleInKey ==
    keyed.done =>
        /\ RoleOf(KeyStringA) \in {RoleHit, RolePit, RoleUnk}
        /\ keyed.a.type \in NoRoleTypes <=> RoleOf(KeyStringA) = RoleUnk
        /\ (keyed.a.name = keyed.b.name /\ keyed.keyA.kind # keyed.keyB.kind)
              => KeyStringA # KeyStringB
        /\ (keyed.keyA.kind = "unk" /\ keyed.keyB.kind \in {"hit", "pit"})
              => KeyStringA # KeyStringB

C16_Witness ==
    /\ keyed.done
    /\ keyed.a.name = NameJose /\ keyed.b.name = NameJose
    /\ keyed.a.type = Some("Pitcher ") /\ keyed.b.type = None
    /\ RoleOf(KeyStringA) = RolePit /\ RoleOf(KeyStringB) = RoleUnk
    /\ KeyStringA # KeyStringB

-----------------------------------------------------------------------------
(* Claim about name normalisation (specification SpecName)                 *)

\* C17: normalizeName is idempotent: normalizing a normalized name changes
\* nothing.
C17_NormalizeIdempotent == named.done => named.twice = named.once

\* A name that every step of normalizeName changes: accent, period, run of
\* white space, upper case.
C17_Witness ==
    /\ named.done
    /\ named.name = <<"J", ".", " ", "E_acute">>
    /\ named.once = <<"j", " ", "e">>
    /\ named.twice = named.once

-----------------------------------------------------------------------------
(* Claims about slots and the need boost (specification SpecSlots)          *)

PitchingSlots == {"P1", "P2", "P3", "P4", "P5", "P6", "P7", "P8", "P9"}
CompositeSlots == {"CI", "MI"}
OutfieldSlots == {"OF1", "OF2"}
StandardSlots == {"C", "1B", "2B", "3B", "SS", "LF", "CF", "RF"}

ScarcityTier(k) ==
    IF k \in CompositeSlots THEN "composite"
    ELSE IF k \in OutfieldSlots THEN "outfield"
    ELSE IF k \in StandardSlots THEN "standard"
    ELSE IF k = "UT" THEN "utility"
    ELSE "pitching"

\* The order the tiers are said to have: composite and outfield, standard,
\* utility, pitching.
StatedRank(k) ==
    CASE ScarcityTier(k) \in {"composite", "outfield"} -> 4
      [] ScarcityTier(k) = "standard" -> 3
      [] ScarcityTier(k) = "utility" -> 2
      [] OTHER -> 1

\* The order the boosts have: composite and standard, outfield, pitching,
\* utility.
BoostRank(k) ==
    CASE ScarcityTier(k) \in {"composite", "standard"} -> 4
      [] ScarcityTier(k) = "outfield" -> 3
      [] ScarcityTier(k) = "pitching" -> 2
      [] OTHER -> 1

\* The boost the scorer gives p for the single empty slot k.
BoostFor(p, k) == needBoostForPlayer(p, <<k>>)

\* C18 as stated: a slot of a higher stated tier has the greater boost
\* (composite and outfield above standard above utility above pitching).
C18_StatedTierOrder ==
    need.done =>
        \A a, b \in need.eligible :
            StatedRank(a) > StatedRank(b)
            => BoostFor(player, a) > BoostFor(player, b)

\* C18, amended: composite and standard slots have the same boost, which is
\* greater than the boost of the outfield slots, which is greater than the
\* boost of the pitching slots, which is greater than the boost of the
\* utility slot.
C18_BoostTierOrder ==
    need.done =>
        \A a, b \in SlotSet :
            /\ BoostRank(a) > BoostRank(b) => SlotBoost(a) > SlotBoost(b)
            /\ BoostRank(a) = BoostRank(b) => SlotBoost(a) = SlotBoost(b)
            /\ a \in need.eligible => BoostFor(player, a) = SlotBoost(a)

C18_Witness ==
    /\ need.done
    /\ {"MI", "2B", "UT"} \subseteq need.eligible
    /\ BoostFor(player, "MI") = BoostFor(player, "2B")
    /\ BoostFor(player, "2B") > BoostFor(player, "UT")

\* The empty slots p is eligible for.
EmptyEligible == {k \in SlotSet : planner[k] = NoKey /\ k \in need.eligible}

\* C19: the need boost is the greatest boost constant of the empty slots
\* the player is eligible for, 0 when there is none; the other empty slots
\* do not count.
C19_MaxOverEmptyEligible ==
    need.done =>
        /\ Range(need.emptySlots) = {k \in SlotSet : planner[k] = NoKey}
        /\ IF EmptyEligible = {} THEN need.boost = 0
           ELSE /\ \E k \in EmptyEligible : need.boost = SlotBoost(k)
                /\ \A k \in EmptyEligible : SlotBoost(k) <= need.boost

\* Empty slots MI and OF1, a hitter eligible for MI only.
C19_Witness ==
    /\ need.done
    /\ need.emptySlots = <<"MI", "OF1">>
    /\ EmptyEligible = {"MI"}
    /\ need.boost = BoostCornerMiddle
    /\ need.boost > 0

\* The slots of the static table for a role and a set of positions.
TableSlots(role, positions) ==
    IF role = "pit" THEN PitchingSlots
    ELSE IF role # "hit" THEN {}
    ELSE {"UT"}
         \cup (IF positions \cap {"OF", "LF", "CF", "RF"} # {}
               THEN OutfieldSlots ELSE {})
         \cup (IF positions \cap {"1B", "3B"} # {} THEN {"CI"} ELSE {})
         \cup (IF positions \cap {"2B", "SS"} # {} THEN {"MI"} ELSE {})
         \cup (positions \cap StandardSlots)

\* C20: in the scorer and in the lineup planner a player is eligible for
\* exactly the slots of the static table, and for no pitching slot together
\* with a hitting slot.
C20_EligibilityTable ==
    need.done =>
        /\ need.eligible = TableSlots(player.type, normPosList(player.POS))
        /\ \A i \in DOMAIN need.rosterRows :
              need.rosterEligible[i] =
                  TableSlots(need.rosterRows[i].type,
                             normPosList(need.rosterRows[i].pos))
        /\ ~(need.eligible \cap PitchingSlots # {}
              /\ need.eligible \ PitchingSlots # {})
        /\ \A i \in DOMAIN need.rosterRows :
              ~(need.rosterEligible[i] \cap PitchingSlots # {}
                /\ need.rosterEligible[i] \ PitchingSlots # {})

\* A hitter with positions {2B}: MI, 2B and UT only.
C20_Witness ==
    /\ need.done
    /\ player.type = "hit" /\ normPosList(player.POS) = {"2B"}
    /\ need.eligible = {"MI", "2B", "UT"}
    /\ \E i \in DOMAIN need.rosterRows :
          /\ need.rosterRows[i].type = "pit"
          /\ need.rosterEligible[i] = PitchingSlots

-----------------------------------------------------------------------------
(* Claims about the scored list and the stored state (specification        *)
(* SpecScorer)                                                              *)

\* C21: scoring leaves the stored roster, target list, category weights and
\* live prices as they were before the call.
C21_StoreOnlyRead ==
    [][/\ roster' = roster
       /\ targets' = targets
       /\ weights' = weights
       /\ livePrices' = livePrices]_vars

\* The reference price of the pool row p with key k: the stored live price,
\* else the market estimate if positive, else the projection baseline.
ReferencePrice(p, k) ==
    IF k \in DOMAIN livePrices /\ livePrices[k].t = "num"
    THEN livePrices[k].n
    ELSE IF getMarketEstimate(p).some /\ getMarketEstimate(p).v > 0
         THEN getMarketEstimate(p).v
    ELSE getBaselineVal(p, "proj")

\* baselineValue - referencePrice held to -15 .. 15.
EdgeOf(d) == IF d < -15 THEN -15 ELSE IF d > 15 THEN 15 ELSE d

\* C22: the composite score of a scored candidate is
\* fitNorm + 0.9 * valueEdge + needBoost, with valueEdge the difference of
\* baseline value and reference price held to -15 .. 15.
C22_CompositeScore ==
    rec.done =>
        \A i \in DOMAIN rec.scored :
            LET r == rec.scored[i]
                p == pool[r.player]
            IN  /\ r.baseVal = getBaselineVal(p, ModeLower(opts.valueMode))
                /\ r.price = ReferencePrice(p, r.key)
                /\ r.valueEdge = EdgeOf(r.baseVal - r.price)
                /\ r.needBoost = needBoostForPlayer(p, rec.emptySlots)
                /\ r.score = RAdd(RAdd(r.fitVal, Rat(9 * r.valueEdge, 10)),
                                  R(r.needBoost))

\* A candidate with a stored live price, value edge 8 and a need boost,
\* and a candidate priced at its market estimate whose edge is held to -15.
C22_Witness ==
    /\ rec.done
    /\ \E i \in DOMAIN rec.scored :
          /\ rec.scored[i].key \in DOMAIN livePrices
          /\ livePrices[rec.scored[i].key] = Num(12)
          /\ rec.scored[i].price = 12
          /\ rec.scored[i].valueEdge = 8
          /\ rec.scored[i].needBoost > 0
          /\ rec.scored[i].score =
                 RAdd(rec.scored[i].fitVal, Rat(72 + 10 * rec.scored[i].needBoost, 10))
    /\ \E i \in DOMAIN rec.scored :
          /\ rec.scored[i].key \notin DOMAIN livePrices
          /\ rec.scored[i].price = 35
          /\ rec.scored[i].baseVal = 10
          /\ rec.scored[i].valueEdge = -15

\* C23: the scored list is in descending order of composite score, and
\* candidates of equal score are in the order of the input pool.
C23_SortedStable ==
    rec.done =>
        \A i, j \in DOMAIN rec.scored :
            i < j =>
                /\ RLe(rec.scored[j].score, rec.scored[i].score)
                /\ rec.scored[i].score = rec.scored[j].score
                      => rec.scored[i].player < rec.scored[j].player

\* Three candidates, the last two of the pool with the same score and the
\* first with a lower one.
C23_Witness ==
    /\ rec.done
    /\ Len(rec.scored) = 3
    /\ rec.scored[1].score = rec.scored[2].score
    /\ rec.scored[1].player = 2 /\ rec.scored[2].player = 3
    /\ rec.scored[3].player = 1
    /\ RLt(rec.scored[3].score, rec.scored[2].score)

\* view holds exactly the records of S, each once.
HoldsExactly(view, S) ==
    /\ Range(view) = S
    /\ Len(view) = Cardinality(S)

\* C24: the needs view is the scored candidates with a need boost, in
\* composite-score order; the value view and the fit view are all scored
\* candidates, by baseVal - price descending and by fitNorm descending.
C24_ThreeViews ==
    rec.done =>
        /\ HoldsExactly(rec.needs, {r \in ScoredSet : r.needBoost > 0})
        /\ \A i, j \in DOMAIN rec.needs :
              i < j => RLe(rec.needs[j].score, rec.needs[i].score)
        /\ HoldsExactly(rec.values, ScoredSet)
        /\ \A i, j \in DOMAIN rec.values :
              i < j => rec.values[j].baseVal - rec.values[j].price
                       <= rec.values[i].baseVal - rec.values[i].price
        /\ HoldsExactly(rec.fits, ScoredSet)
        /\ \A i, j \in DOMAIN rec.fits :
              i < j => RLe(rec.fits[j].fitVal, rec.fits[i].fitVal)

\* Some but not all scored candidates have a need boost, the value view is
\* in another order than the scored list and the fit view, and it separates
\* two candidates whose clamped value edge is the same.
C24_Witness ==
    /\ rec.done
    /\ rec.needs # <<>>
    /\ Len(rec.needs) < Len(rec.scored)
    /\ rec.values # rec.scored
    /\ rec.fits # rec.values
    /\ \E i, j \in DOMAIN rec.values :
          /\ i < j
          /\ rec.values[i].valueEdge = rec.values[j].valueEdge
          /\ rec.values[i].baseVal - rec.values[i].price
             > rec.values[j].baseVal - rec.values[j].price

(* Claim about the percentile strategy components (specification SpecPool) *)

RoleCats(type) == IF type = "hit" THEN STRAT_CATS_HIT ELSE STRAT_CATS_PIT

\* The pool members of one role that have a finite value in a category.
WithValue(type, cat) ==
    {i \in DOMAIN pool :
        typeLabel(pool[i].type) = type /\ ~AbsentCell(pool[i].stat[cat])}

\* rank / (n - 1) of x among the values of the members M, inverted for the
\* categories where lower is better, in units of 1/10000.
RankShare(M, cat, x) ==
    LET n == Cardinality(M)
        rank == Cardinality({i \in M : pool[i].stat[cat].n <= x}) - 1
    IN  IF cat \in STRAT_LOWER_BETTER
        THEN ToFixed4(n - 1 - rank, n - 1)
        ELSE ToFixed4(rank, n - 1)

\* x is a worse raw value than y in category cat.
Worse(cat, x, y) == IF cat \in STRAT_LOWER_BETTER THEN x > y ELSE x < y

\* The component of every member of M is its rank share, lies within
\* [0, 1], and is never higher for a worse raw value.
RankedComponents(M, cat) ==
    \A i \in M :
        /\ pool[i].comp[cat] = Num(RankShare(M, cat, pool[i].stat[cat].n))
        /\ pool[i].comp[cat].n \in 0 .. 10000
        /\ \A j \in M :
              Worse(cat, pool[i].stat[cat].n, pool[j].stat[cat].n)
                  => pool[i].comp[cat].n <= pool[j].comp[cat].n

\* C25: for a role and category with at least 25 finite values, the
\* component of each player with a value is rank / (n - 1) among them
\* (1 - rank / (n - 1) for ERA and WHIP), within [0, 1] and never higher
\* for a worse raw value; with fewer than 25 values no player of the role
\* has a component.
C25_PercentileComponents ==
    built =>
        \A type \in {"hit", "pit"} :
            \A cat \in Range(RoleCats(type)) :
                IF Cardinality(WithValue(type, cat)) >= MinSample
                THEN RankedComponents(WithValue(type, cat), cat)
                ELSE \A i \in DOMAIN pool :
                        typeLabel(pool[i].type) = type
                            => pool[i].comp[cat] = Undef

(* Claim about the quick-add action (specification SpecQuickAdd)           *)

\* C26: a scored candidate that was added to the roster through the
\* add-roster action of the panel is not returned by the next scoring of
\* the same pool.
C26_QuickAddedNotScored ==
    rec.done => \A i \in DOMAIN rec.scored : rec.scored[i].key \notin added

(* Claim about the lineup planner (specification SpecPlanner)              *)

\* C27: no player id is in two slots, and no player id is both in a slot
\* and on the minors list.
C27_PlannerExclusive ==
    /\ \A k1, k2 \in SlotSet :
          (k1 # k2 /\ planner[k1] # NoKey) => planner[k1] # planner[k2]
    /\ \A k \in SlotSet :
          planner[k] # NoKey => planner[k] \notin Range(minors)

\* A player who was in another slot or on the minors list has just been
\* assigned to a slot, while another player is on the minors list.
C27_Witness ==
    /\ lastOp.op = "setSlot"
    /\ lastOp.held
    /\ \E k \in SlotSet : planner[k] = lastOp.id
    /\ minors # <<>>

(* Claims about the roster page (specification SpecRoster)                 *)

RosterNow == getRoster(roster).value

RECURSIVE ContractSpend(_)
ContractSpend(list) ==
    IF list = <<>> THEN 0
    ELSE (IF Head(list).underContract THEN Head(list).price.n ELSE 0)
         + ContractSpend(Tail(list))

\* budget_remaining = max(0, budget_total - spend) in the settings s.
BudgetSettled(s, list) ==
    getSettings(s).budget_remaining
        = Num(Max(0, getSettings(s).budget_total.n - ContractSpend(list)))

OtherSettingsFields ==
    {"budget_total", "hitter_slots_total", "pitcher_slots_total",
     "category_weights", "category_weights_updated_at", "value_mode"}

C30_ComparePins ==
    /\ Len(pins) <= 4
    /\ \A i, j \in DOMAIN pins : i # j => pins[i] # pins[j]
    /\ (lastOp.op = "add" /\ lastOp.key \in Range(lastOp.before))
          => pins = lastOp.before
    /\ (/\ lastOp.op = "add"
        /\ lastOp.key # NoKey
        /\ lastOp.key \notin Range(lastOp.before)
        /\ Len(lastOp.before) = 4)
          => pins = Append(Tail(lastOp.before), lastOp.key)

\* A fifth distinct key has just been added to four pinned keys.
C30_Witness ==
    /\ lastOp.op = "add"
    /\ lastOp.key # NoKey
    /\ lastOp.key \notin Range(lastOp.before)
    /\ Len(lastOp.before) = 4
    /\ Len(pins) = 4
    /\ pins[4] = lastOp.key

=============================================================================
